---- MODULE Spec2Model ----
(***************************************************************************)
(* accentd: the per-device key-stream state machine (Idle / Holding /      *)
(* Popup) of crates/accentd/src/state_machine.rs, the key tables of        *)
(* crates/accentd-core/src/charmap.rs and the dispatch of the returned     *)
(* actions by the supervisor of crates/accentd/src/main.rs.                *)
(*                                                                         *)
(* Strings that are not ASCII in the source are spelled by their entity    *)
(* names: "egrave", "eacute", "ecirc", "euml", "atilde", "ccedil", "szlig" *)
(* (sharp s).  Upper-case forms start with the capital letter ("Egrave").  *)
(***************************************************************************)
EXTENDS Integers, Sequences, FiniteSets, TLC

(***************************************************************************)
(* Bounds of the model.                                                    *)
(***************************************************************************)
\* general.threshold_ms and popup.timeout_ms of the configuration, scaled
\* down to a few clock ticks
ThresholdMs == 2
PopupTimeoutMs == 3
\* number of ticks by which a timer wake may come after its deadline
MaxLate == 1
\* number of keys that are physically down at the same time
MaxDown == 2
\* largest index a Select message carries, besides 0
MaxIndex == 2

(***************************************************************************)
(* Linux evdev key codes used by the source.                               *)
(***************************************************************************)
KEY_ESC == 1
KEY_BACKSPACE == 14
KEY_ENTER == 28
KEY_0 == 11
KEY_2 == 3
KEY_3 == 4
KEY_4 == 5
KEY_5 == 6
KEY_6 == 7
KEY_7 == 8
KEY_8 == 9
KEY_A == 30
KEY_B == 48
KEY_C == 46
KEY_D == 32
KEY_F == 33
KEY_U == 22
KEY_1 == 2
KEY_9 == 10
KEY_E == 18
KEY_S == 31
KEY_LEFTCTRL == 29
KEY_RIGHTCTRL == 97
KEY_LEFTALT == 56
KEY_RIGHTALT == 100
KEY_LEFTMETA == 125
KEY_RIGHTMETA == 126
KEY_LEFTSHIFT == 42
KEY_RIGHTSHIFT == 54

\* the keys of the modelled keyboard
Keys ==
  {KEY_ESC, KEY_1, KEY_9, KEY_E, KEY_S,
   KEY_LEFTCTRL, KEY_RIGHTCTRL, KEY_LEFTALT, KEY_LEFTMETA,
   KEY_LEFTSHIFT, KEY_RIGHTSHIFT}

(***************************************************************************)
(* evdev input events: value 0 = release, 1 = press, 2 = repeat.           *)
(***************************************************************************)
KeyEvent(code, value) == [type |-> "KEY", code |-> code, value |-> value]
SynEvent == [type |-> "SYN", code |-> 0, value |-> 0]
NoEvent == [type |-> "NONE", code |-> 0, value |-> 0]

(***************************************************************************)
(* DaemonMsg (ipc.rs) and Action (state_machine.rs).                       *)
(***************************************************************************)
ShowPopup(base, accents, labels) ==
  [type |-> "show_popup", base |-> base, accents |-> accents, labels |-> labels]
HidePopup == [type |-> "hide_popup", base |-> "", accents |-> <<>>, labels |-> <<>>]
NoMsg == [type |-> "none", base |-> "", accents |-> <<>>, labels |-> <<>>]

\* DaemonMsg::Ack and DaemonMsg::Status, the replies to a command (the text of
\* an Ack and the version of a Status are left out)
Ack(ok) == [type |-> "ack", ok |-> ok, enabled |-> FALSE, locale |-> ""]
Status(enabled, locale) == [type |-> "status", ok |-> TRUE, enabled |-> enabled, locale |-> locale]
NoReply == [type |-> "none", ok |-> FALSE, enabled |-> FALSE, locale |-> ""]

Relay(event) == [tag |-> "Relay", event |-> event, msg |-> NoMsg, accent |-> ""]
SendPopup(msg) == [tag |-> "SendPopup", event |-> NoEvent, msg |-> msg, accent |-> ""]
EmitAccent(accent) == [tag |-> "EmitAccent", event |-> NoEvent, msg |-> NoMsg, accent |-> accent]
Suppress == [tag |-> "Suppress", event |-> NoEvent, msg |-> NoMsg, accent |-> ""]

(***************************************************************************)
(* charmap.rs                                                              *)
(***************************************************************************)
locale_it ==
  [b \in {"a", "e", "i", "o", "u", "n", "c"} |->
     CASE b = "a" -> <<"agrave", "aacute", "acirc", "atilde", "auml">>
       [] b = "e" -> <<"egrave", "eacute", "ecirc", "euml">>
       [] b = "i" -> <<"igrave", "iacute", "icirc", "iuml">>
       [] b = "o" -> <<"ograve", "oacute", "ocirc", "otilde", "ouml">>
       [] b = "u" -> <<"ugrave", "uacute", "ucirc", "uuml">>
       [] b = "n" -> <<"ntilde">>
       [] b = "c" -> <<"ccedil">>]

locale_de ==
  [b \in {"a", "e", "i", "o", "u", "s"} |->
     CASE b = "a" -> <<"auml", "agrave", "aacute", "acirc">>
       [] b = "e" -> <<"euml", "egrave", "eacute", "ecirc">>
       [] b = "i" -> <<"iuml", "igrave", "iacute", "icirc">>
       [] b = "o" -> <<"ouml", "ograve", "oacute", "ocirc">>
       [] b = "u" -> <<"uuml", "ugrave", "uacute", "ucirc">>
       [] b = "s" -> <<"szlig">>]

\* an inline [locale.<name>] table of the configuration file: the loader
\* accepts any table, also one with an empty list
locale_inline ==
  [b \in {"e", "s"} |->
     CASE b = "e" -> <<"eacute", "egrave">>
       [] b = "s" -> <<>>]

builtin_locale(name) ==
  CASE name = "it" -> locale_it
    [] name = "de" -> locale_de
    [] OTHER -> [b \in {} |-> <<>>]

\* str::to_uppercase on the strings of the tables
to_uppercase(s) ==
  CASE s = "agrave" -> "Agrave" [] s = "aacute" -> "Aacute" [] s = "acirc" -> "Acirc"
    [] s = "atilde" -> "Atilde" [] s = "auml" -> "Auml"
    [] s = "egrave" -> "Egrave" [] s = "eacute" -> "Eacute" [] s = "ecirc" -> "Ecirc" [] s = "euml" -> "Euml"
    [] s = "igrave" -> "Igrave" [] s = "iacute" -> "Iacute" [] s = "icirc" -> "Icirc" [] s = "iuml" -> "Iuml"
    [] s = "ograve" -> "Ograve" [] s = "oacute" -> "Oacute" [] s = "ocirc" -> "Ocirc"
    [] s = "otilde" -> "Otilde" [] s = "ouml" -> "Ouml"
    [] s = "ugrave" -> "Ugrave" [] s = "uacute" -> "Uacute" [] s = "ucirc" -> "Ucirc" [] s = "uuml" -> "Uuml"
    [] s = "ntilde" -> "Ntilde" [] s = "ccedil" -> "Ccedil"
    [] s = "szlig" -> "SS"
    [] OTHER -> s

\* str::to_lowercase on the base letters
to_lowercase(s) ==
  CASE s = "A" -> "a" [] s = "C" -> "c" [] s = "E" -> "e" [] s = "I" -> "i"
    [] s = "N" -> "n" [] s = "O" -> "o" [] s = "S" -> "s" [] s = "U" -> "u"
    [] s = "Y" -> "y"
    [] OTHER -> s

\* Option<T>: None, or a record holding the value
None == [some |-> FALSE]
Some(v) == [some |-> TRUE, val |-> v]

resolve_accents(locale_map, base, shift) ==
  LET lower == to_lowercase(base) IN
  IF lower \notin DOMAIN locale_map THEN None
  ELSE IF shift
       THEN Some([i \in 1..Len(locale_map[lower]) |-> to_uppercase(locale_map[lower][i])])
       ELSE Some(locale_map[lower])

keycode_to_base(code) ==
  CASE code = 30 -> Some("a")
    [] code = 46 -> Some("c")
    [] code = 18 -> Some("e")
    [] code = 23 -> Some("i")
    [] code = 49 -> Some("n")
    [] code = 24 -> Some("o")
    [] code = 31 -> Some("s")
    [] code = 22 -> Some("u")
    [] code = 21 -> Some("y")
    [] OTHER -> None

keycode_to_digit(code) ==
  CASE code = 2 -> Some(1)
    [] code = 3 -> Some(2)
    [] code = 4 -> Some(3)
    [] code = 5 -> Some(4)
    [] code = 6 -> Some(5)
    [] code = 7 -> Some(6)
    [] code = 8 -> Some(7)
    [] code = 9 -> Some(8)
    [] code = 10 -> Some(9)
    [] OTHER -> None

(***************************************************************************)
(* state_machine.rs: State and StateMachine.                               *)
(***************************************************************************)
Idle ==
  [kind |-> "Idle", base |-> "", accents |-> <<>>, key_code |-> 0,
   shift |-> FALSE, started |-> 0]
Holding(base, accents, key_code, shift, started) ==
  [kind |-> "Holding", base |-> base, accents |-> accents, key_code |-> key_code,
   shift |-> shift, started |-> started]
\* State::Popup has no shift field
Popup(base, accents, key_code, started) ==
  [kind |-> "Popup", base |-> base, accents |-> accents, key_code |-> key_code,
   shift |-> FALSE, started |-> started]

\* StateMachine::new
new(threshold_ms, popup_timeout_ms, enabled, locale_map) ==
  [state |-> Idle,
   locale_map |-> locale_map,
   threshold_ms |-> threshold_ms,
   popup_timeout_ms |-> popup_timeout_ms,
   enabled |-> enabled,
   ctrl_held |-> FALSE,
   alt_held |-> FALSE,
   super_held |-> FALSE,
   shift_held |-> FALSE]

\* what an operation gives back: the machine after it and the returned Vec<Action>
Outcome(m, actions) == [sm |-> m, actions |-> actions]

\* a switch-off that leaves the state as it is
set_enabled_keep(m, enabled) == [m EXCEPT !.enabled = enabled]

set_enabled(m, enabled) ==
  IF ~enabled
  THEN [m EXCEPT !.enabled = enabled, !.state = Idle]
  ELSE [m EXCEPT !.enabled = enabled]

is_enabled(m) == m.enabled

\* a replacement of the map that leaves the state as it is
set_locale_map_keep(m, map) == [m EXCEPT !.locale_map = map]

set_locale_map(m, map) ==
  [m EXCEPT !.locale_map = map, !.state = Idle]

\* (1..=accents.len() as u8).collect(): the length is cut to 8 bits
Labels(accents) == [i \in 1..(Len(accents) % 256) |-> i]

\* a hold that reaches its threshold one tick late
ThresholdReached_late(m, now) == now - m.state.started > m.threshold_ms

\* check_timer, line 99: started.elapsed().as_millis() as u64 >= self.threshold_ms
ThresholdReached(m, now) == now - m.state.started >= m.threshold_ms

\* an early call that starts the hold timer again
check_timer_rearm(m, now) ==
  CASE m.state.kind = "Holding" ->
         IF ThresholdReached(m, now)
         THEN Outcome(
                [m EXCEPT !.state = Popup(m.state.base, m.state.accents,
                                          m.state.key_code, now)],
                << Relay(KeyEvent(m.state.key_code, 0)),
                   SendPopup(ShowPopup(m.state.base, m.state.accents,
                                       Labels(m.state.accents))) >>)
         ELSE Outcome([m EXCEPT !.state.started = now], <<>>)
    [] m.state.kind = "Popup" ->
         IF now - m.state.started >= m.popup_timeout_ms
         THEN Outcome([m EXCEPT !.state = Idle], << SendPopup(HidePopup) >>)
         ELSE Outcome(m, <<>>)
    [] OTHER -> Outcome(m, <<>>)

\* a popup that has no timeout
check_timer_no_timeout(m, now) ==
  CASE m.state.kind = "Holding" ->
         IF ThresholdReached(m, now)
         THEN Outcome(
                [m EXCEPT !.state = Popup(m.state.base, m.state.accents,
                                          m.state.key_code, now)],
                << Relay(KeyEvent(m.state.key_code, 0)),
                   SendPopup(ShowPopup(m.state.base, m.state.accents,
                                       Labels(m.state.accents))) >>)
         ELSE Outcome(m, <<>>)
    [] OTHER -> Outcome(m, <<>>)

check_timer(m, now) ==
  CASE m.state.kind = "Holding" ->
         IF ThresholdReached(m, now)
         THEN Outcome(
                [m EXCEPT !.state = Popup(m.state.base, m.state.accents,
                                          m.state.key_code, now)],
                << Relay(KeyEvent(m.state.key_code, 0)),
                   SendPopup(ShowPopup(m.state.base, m.state.accents,
                                       Labels(m.state.accents))) >>)
         ELSE Outcome(m, <<>>)
    [] m.state.kind = "Popup" ->
         IF now - m.state.started >= m.popup_timeout_ms
         THEN Outcome([m EXCEPT !.state = Idle], << SendPopup(HidePopup) >>)
         ELSE Outcome(m, <<>>)
    [] OTHER -> Outcome(m, <<>>)

\* Option<Instant>
next_deadline(m) ==
  CASE m.state.kind = "Holding" -> Some(m.state.started + m.threshold_ms)
    [] m.state.kind = "Popup" -> Some(m.state.started + m.popup_timeout_ms)
    [] OTHER -> None

\* a selection that leaves the popup open
ipc_select_keep_open(m, index, overflow_checks) ==
  IF m.state.kind = "Popup"
  THEN IF index = 0 /\ overflow_checks
       THEN [sm |-> m, actions |-> <<>>, panicked |-> TRUE]
       ELSE LET idx == (index - 1) % 256 IN
            IF idx < Len(m.state.accents)
            THEN [sm |-> m,
                  actions |-> << SendPopup(HidePopup),
                                 EmitAccent(m.state.accents[idx + 1]) >>,
                  panicked |-> FALSE]
            ELSE [sm |-> m, actions |-> <<>>, panicked |-> FALSE]
  ELSE [sm |-> m, actions |-> <<>>, panicked |-> FALSE]

\* index - 1 on a u8: with overflow checks (debug build) index 0 panics,
\* without them (release build) it wraps to 255
ipc_select(m, index, overflow_checks) ==
  IF m.state.kind = "Popup"
  THEN IF index = 0 /\ overflow_checks
       THEN [sm |-> m, actions |-> <<>>, panicked |-> TRUE]
       ELSE LET idx == (index - 1) % 256 IN
            IF idx < Len(m.state.accents)
            THEN [sm |-> [m EXCEPT !.state = Idle],
                  actions |-> << SendPopup(HidePopup),
                                 EmitAccent(m.state.accents[idx + 1]) >>,
                  panicked |-> FALSE]
            ELSE [sm |-> m, actions |-> <<>>, panicked |-> FALSE]
  ELSE [sm |-> m, actions |-> <<>>, panicked |-> FALSE]

\* a dismissal that also ends a pending hold
ipc_dismiss_any(m) ==
  IF m.state.kind # "Idle"
  THEN Outcome([m EXCEPT !.state = Idle], << SendPopup(HidePopup) >>)
  ELSE Outcome(m, <<>>)

ipc_dismiss(m) ==
  IF m.state.kind = "Popup"
  THEN Outcome([m EXCEPT !.state = Idle], << SendPopup(HidePopup) >>)
  ELSE Outcome(m, <<>>)

update_modifiers(m, event) ==
  LET code == event.code
      pressed == event.value = 1
      released == event.value = 0
      Upd(old) == IF pressed THEN TRUE ELSE IF released THEN FALSE ELSE old
  IN CASE code \in {KEY_LEFTCTRL, KEY_RIGHTCTRL} ->
            [m EXCEPT !.ctrl_held = Upd(m.ctrl_held)]
       [] code \in {KEY_LEFTALT, KEY_RIGHTALT} ->
            [m EXCEPT !.alt_held = Upd(m.alt_held)]
       [] code \in {KEY_LEFTMETA, KEY_RIGHTMETA} ->
            [m EXCEPT !.super_held = Upd(m.super_held)]
       [] code \in {KEY_LEFTSHIFT, KEY_RIGHTSHIFT} ->
            [m EXCEPT !.shift_held = Upd(m.shift_held)]
       [] OTHER -> m

\* a hold that keeps the base key back until the hold is decided
StartHold_deferred(m, event, base, accents, shift, now) ==
  Outcome([m EXCEPT !.state = Holding(base, accents, event.code, shift, now)],
          << Suppress >>)

\* handle_idle, lines 217-226: the hold starts and the base key is relayed
StartHold(m, event, base, accents, shift, now) ==
  Outcome([m EXCEPT !.state = Holding(base, accents, event.code, shift, now)],
          << Relay(event) >>)

handle_idle(m, event, code, value, now) ==
  IF value # 1 THEN Outcome(m, << Relay(event) >>)
  ELSE IF m.ctrl_held \/ m.alt_held \/ m.super_held THEN Outcome(m, << Relay(event) >>)
  ELSE LET shift == m.shift_held
           base == keycode_to_base(code)
           accents == IF base.some
                      THEN resolve_accents(m.locale_map, base.val, shift)
                      ELSE None
       IN IF base.some /\ accents.some /\ accents.val # <<>>
          THEN StartHold(m, event, base.val, accents.val, shift, now)
          ELSE Outcome(m, << Relay(event) >>)

\* handle_holding, lines 243-246: repeat of the held key
HoldingRepeat(m, event) == Outcome(m, << Suppress >>)

\* a cancelled hold that swallows the key that cancelled it
HoldingCancel_swallow(m, event) == Outcome([m EXCEPT !.state = Idle], << Suppress >>)

\* handle_holding, lines 255-260: press of a key while the hold is pending
HoldingCancel(m, event) == Outcome([m EXCEPT !.state = Idle], << Relay(event) >>)

handle_holding(m, event, code, value) ==
  LET held_code == m.state.key_code IN
  IF code = held_code /\ value = 2 THEN HoldingRepeat(m, event)
  ELSE IF code = held_code /\ value = 0
       THEN Outcome([m EXCEPT !.state = Idle], << Relay(event) >>)
  ELSE IF value = 1 THEN HoldingCancel(m, event)
  ELSE Outcome(m, << Relay(event) >>)

\* a popup that lets the autorepeat of the held key through
PopupRepeat_relay(m, event) == Outcome(m, << Relay(event) >>)

\* handle_popup, lines 272-275: repeat of the held key
PopupRepeat(m, event) == Outcome(m, << Suppress >>)

\* a selection that emits the accent before the popup is told to hide
PopupSelect_emit_first(m, accents, digit) ==
  Outcome([m EXCEPT !.state = Idle],
          << EmitAccent(accents[(digit - 1) + 1]), SendPopup(HidePopup) >>)

\* handle_popup, lines 297-311: a digit key that names a variant
PopupSelect(m, accents, digit) ==
  Outcome([m EXCEPT !.state = Idle],
          << SendPopup(HidePopup), EmitAccent(accents[(digit - 1) + 1]) >>)

\* a dismissal that hides the popup after the key that dismissed it
PopupOtherPress_relay_first(m, event) ==
  Outcome([m EXCEPT !.state = Idle], << Relay(event), SendPopup(HidePopup) >>)

\* a dismissal that drops the key that dismissed the popup
PopupOtherPress_drop(m, event) ==
  Outcome([m EXCEPT !.state = Idle], << SendPopup(HidePopup) >>)

\* handle_popup, lines 313-321: any other key press
PopupOtherPress(m, event) ==
  Outcome([m EXCEPT !.state = Idle], << SendPopup(HidePopup), Relay(event) >>)

\* a dismissal by ESC or by the release of the held key that lets the event through
PopupDismiss_relay(m, event) ==
  Outcome([m EXCEPT !.state = Idle], << SendPopup(HidePopup), Relay(event) >>)

\* handle_popup, lines 277-295: release of the held key, press of ESC
PopupDismiss(m, event) ==
  Outcome([m EXCEPT !.state = Idle], << SendPopup(HidePopup), Suppress >>)

\* a popup that closes on the release of any key
PopupIgnore_dismiss(m, event) ==
  IF event.value = 0
  THEN Outcome([m EXCEPT !.state = Idle], << SendPopup(HidePopup), Suppress >>)
  ELSE Outcome(m, << Suppress >>)

\* handle_popup, line 323: release or repeat of another key
PopupIgnore(m, event) == Outcome(m, << Suppress >>)

handle_popup(m, event, code, value) ==
  LET popup_accents == m.state.accents
      popup_code == m.state.key_code
      digit == keycode_to_digit(code)
  IN
  IF code = popup_code /\ value = 2 THEN PopupRepeat(m, event)
  ELSE IF code = popup_code /\ value = 0 THEN PopupDismiss(m, event)
  ELSE IF code = KEY_ESC /\ value = 1 THEN PopupDismiss(m, event)
  ELSE IF value = 1 /\ digit.some /\ digit.val - 1 < Len(popup_accents)
       THEN PopupSelect(m, popup_accents, digit.val)
  ELSE IF value = 1 THEN PopupOtherPress(m, event)
  ELSE PopupIgnore(m, event)

process_event(m, event, now) ==
  LET m1 == IF event.type = "KEY" THEN update_modifiers(m, event) ELSE m IN
  IF event.type # "KEY" THEN Outcome(m1, << Relay(event) >>)
  ELSE IF ~m1.enabled THEN Outcome(m1, << Relay(event) >>)
  ELSE CASE m1.state.kind = "Idle" -> handle_idle(m1, event, event.code, event.value, now)
         [] m1.state.kind = "Holding" -> handle_holding(m1, event, event.code, event.value)
         [] m1.state.kind = "Popup" -> handle_popup(m1, event, event.code, event.value)

(***************************************************************************)
(* One grabbed keyboard, its StateMachine and the supervisor's dispatch.   *)
(***************************************************************************)
VARIABLES
  sm,        \* the StateMachine of the device
  now,       \* the monotonic clock (Instant::now()), in ticks since the
             \* machine was last Idle: an Idle machine holds no Instant
  down,      \* the keys that are physically down on the keyboard
  op,        \* the operation that ran last
  pre,       \* the StateMachine as it was when that operation began
  event,     \* the InputEvent it was given (NoEvent if none)
  index,     \* the index of the Select message it was given (0 if none)
  actions,   \* the Vec<Action> it handed to process_actions
  panicked,  \* the operation ended in a panic
  synth,     \* keys that are down and whose release check_timer has synthesized
  resent,    \* the event is the release of a key that was in synth
  shown,     \* the accents of the popup that the clients have been told to show
  state_machines,  \* Shared.state_machines, one StateMachine per grabbed keyboard
  pre_machines,    \* state_machines as they were when the last operation began
  device_down,     \* per keyboard, the keys that are physically down
  device_idx,      \* DeviceEvent.device_idx of the event given last
  config_locale,   \* Shared.config.locale.active
  reply,           \* the DaemonMsg the last IPC handler sent to its own client
  clients,         \* per IPC client: its connection, is_popup, whether the writer
                   \* task still holds rx, and the lines sent into its channel
  popup_txs,       \* Shared.popup_txs: the senders of the registered popup clients
  produced,        \* the number of popup messages process_actions has broadcast
  sender,          \* the client whose handler ran last (0 if none)
  lock,            \* the task that holds the mutex around Shared ("free" if none)
  tasks,           \* per task: where it is and the actions it still has to dispatch
  sinks,           \* the actions that have reached a sink, oldest first
  batches,         \* the action lists returned so far, oldest first
  panic_ring,      \* main: panic_ring
  panic_idx,       \* main: panic_idx
  exited,          \* std::process::exit(0) has been called
  presses,         \* the key presses received so far, newest last (at most three)
  delivered,       \* the event given last was handed to a state machine
  grabbers,        \* the keyboards whose grabber task is still running
  main_loop,       \* "running", or "done" once the main loop has broken out
  socket_file,     \* the socket file exists in the file system
  accent,          \* emit_accent: its accent argument, a string of codepoints
  fail_at,         \* the emit_events call that fails (0 if none does)
  emitter,         \* the batches the EventEmitter has taken, oldest first
  emit_result,     \* what emit_accent returned: "Ok", "Err", or "none" before
  codec_msg,       \* the message given to ipc::encode last
  codec_line,      \* the line given to decode_daemon and decode_client last
  decoded          \* what the two decoders made of it

\* the IPC clients and their channels
ipc_vars == << clients, popup_txs, produced, sender >>

\* the mutex around Shared and the tasks that take it
lock_vars == << lock, tasks, sinks, batches >>

\* the panic key combo of the main loop
panic_vars == << panic_ring, panic_idx, exited, presses, delivered >>

\* the grabber tasks, the main loop and the socket file
shutdown_vars == << grabbers, main_loop, socket_file >>

\* one call of emit_accent
emit_vars == << accent, fail_at, emitter, emit_result >>

\* one line through the IPC codec
codec_vars == << codec_msg, codec_line, decoded >>

vars ==
  << sm, now, down, op, pre, event, index, actions, panicked, synth, resent, shown,
     state_machines, pre_machines, device_down, device_idx, config_locale, reply,
     ipc_vars, lock_vars, panic_vars, shutdown_vars, emit_vars, codec_vars >>

\* the parts of the daemon that the machines of the keyboards do not touch
other_vars ==
  << ipc_vars, lock_vars, panic_vars, shutdown_vars, emit_vars, codec_vars >>

\* no IPC client has connected
NoClients ==
  /\ clients = <<>>
  /\ popup_txs = <<>>
  /\ produced = 0
  /\ sender = 0

\* no task is running
NoTasks ==
  /\ lock = "free"
  /\ tasks = <<>>
  /\ sinks = <<>>
  /\ batches = <<>>

\* every grabber task is running and the socket is bound
NoShutdown ==
  /\ grabbers = {0, 1}
  /\ main_loop = "running"
  /\ socket_file = TRUE

\* emit_accent has not been called
NoEmission ==
  /\ accent = <<>>
  /\ fail_at = 0
  /\ emitter = <<>>
  /\ emit_result = "none"

\* nothing has gone through the codec
NoLine ==
  /\ codec_msg = [type |-> "none"]
  /\ codec_line = <<>>
  /\ decoded = [daemon |-> [type |-> "none"], client |-> [type |-> "none"]]

\* no key press has been seen
NoPresses ==
  /\ panic_ring = <<>>
  /\ panic_idx = 0
  /\ exited = FALSE
  /\ presses = <<>>
  /\ delivered = FALSE

\* the configuration and the reply channel of the IPC handlers
control_vars == << config_locale, reply >>

\* the variables of the several-keyboard supervisor
supervisor_vars == << state_machines, pre_machines, device_down, device_idx >>

\* the variables of the one-keyboard view, apart from the record of the
\* operation that ran last
device_vars == << sm, pre, down, synth, resent, shown >>

\* the locale maps a configuration can select
LocaleMaps == {locale_it, locale_de, locale_inline}

\* what the kernel delivers for one keyboard: a press of a key that is up,
\* a release or a repeat of a key that is down, or a sync event
DeviceEvents ==
  {KeyEvent(c, 1) : c \in IF Cardinality(down) < MaxDown THEN Keys \ down ELSE {}}
    \cup {KeyEvent(c, 0) : c \in down}
    \cup {KeyEvent(c, 2) : c \in down}
    \cup {SynEvent}

HasTag(acts, tag) == \E i \in 1..Len(acts) : acts[i].tag = tag
HasMsg(acts, type) ==
  \E i \in 1..Len(acts) : acts[i].tag = "SendPopup" /\ acts[i].msg.type = type
HasRelay(acts) == HasTag(acts, "Relay")
CountMsg(acts, type) ==
  Cardinality({i \in 1..Len(acts) : acts[i].tag = "SendPopup" /\ acts[i].msg.type = type})
CountRelay(acts, ev) ==
  Cardinality({i \in 1..Len(acts) : acts[i] = Relay(ev)})

\* process_actions (SendPopup): what the popup clients show afterwards
Shown(old, acts) ==
  LET F[k \in 0..Len(acts)] ==
        IF k = 0 THEN old
        ELSE IF acts[k].tag = "SendPopup" /\ acts[k].msg.type = "show_popup"
             THEN acts[k].msg.accents
        ELSE IF acts[k].tag = "SendPopup" /\ acts[k].msg.type = "hide_popup"
             THEN <<>>
        ELSE F[k - 1]
  IN F[Len(acts)]

\* the clock as the machine m can observe it
Clock(m, t) == IF m.state.kind = "Idle" THEN 0 ELSE t

\* the keys that are down with a synthesized release, after an operation
Synth(old, ev, acts) ==
  LET kept == IF ev.type = "KEY" /\ ev.value \in {0, 1} THEN old \ {ev.code} ELSE old
  IN kept \cup {acts[i].event.code :
                  i \in {j \in 1..Len(acts) : acts[j].tag = "Relay" /\ acts[j].event # ev}}

Init ==
  /\ \E enabled \in BOOLEAN, map \in LocaleMaps :
       /\ sm = new(ThresholdMs, PopupTimeoutMs, enabled, map)
       /\ pre = new(ThresholdMs, PopupTimeoutMs, enabled, map)
  /\ now = 0
  /\ down = {}
  /\ op = "new"
  /\ event = NoEvent
  /\ index = 0
  /\ actions = <<>>
  /\ panicked = FALSE
  /\ synth = {}
  /\ resent = FALSE
  /\ shown = <<>>
  /\ state_machines = <<>>
  /\ pre_machines = <<>>
  /\ device_down = <<>>
  /\ device_idx = 0
  /\ config_locale = ""
  /\ reply = NoReply
  /\ NoClients /\ NoTasks /\ NoPresses
  /\ NoShutdown /\ NoEmission /\ NoLine

\* one operation of the machine, its actions handed to process_actions
Step(name, ev, i, r, panic) ==
  /\ op' = name
  /\ pre' = sm
  /\ event' = ev
  /\ index' = i
  /\ sm' = r.sm
  /\ actions' = r.actions
  /\ panicked' = panic
  /\ now' = Clock(r.sm, now)
  /\ synth' = Synth(synth, ev, r.actions)
  /\ resent' = (ev.type = "KEY" /\ ev.value = 0 /\ ev.code \in synth)
  /\ shown' = Shown(shown, r.actions)
  /\ UNCHANGED supervisor_vars
  /\ UNCHANGED control_vars
  /\ UNCHANGED other_vars

\* main loop, device branch: process_event, then process_actions
DeviceEvent ==
  \E ev \in DeviceEvents :
    /\ Step("process_event", ev, 0, process_event(sm, ev, now), FALSE)
    /\ down' = IF ev.type # "KEY" THEN down
               ELSE IF ev.value = 1 THEN down \cup {ev.code}
               ELSE IF ev.value = 0 THEN down \ {ev.code}
               ELSE down

\* main loop, timer branch: check_timer, then process_actions
TimerWake ==
  /\ Step("check_timer", NoEvent, 0, check_timer(sm, now), FALSE)
  /\ UNCHANGED down

\* handle_ipc_client, ClientMsg::Select
IpcSelect ==
  \E i \in 0..MaxIndex, overflow_checks \in BOOLEAN :
    LET r == ipc_select(sm, i, overflow_checks) IN
    /\ Step("ipc_select", NoEvent, i, r, r.panicked)
    /\ UNCHANGED down

\* handle_ipc_client, ClientMsg::Dismiss
IpcDismiss ==
  /\ Step("ipc_dismiss", NoEvent, 0, ipc_dismiss(sm), FALSE)
  /\ UNCHANGED down

\* handle_ipc_client, ClientMsg::Toggle / Enable / Disable: only an Ack to
\* the sender, nothing is handed to process_actions
IpcSetEnabled ==
  \E new_state \in BOOLEAN :
    /\ Step("set_enabled", NoEvent, 0, Outcome(set_enabled(sm, new_state), <<>>), FALSE)
    /\ UNCHANGED down

\* handle_ipc_client, ClientMsg::SetLocale with a locale that loads: only an
\* Ack to the sender
IpcSetLocale ==
  \E map \in LocaleMaps :
    /\ Step("set_locale_map", NoEvent, 0, Outcome(set_locale_map(sm, map), <<>>), FALSE)
    /\ UNCHANGED down

\* time passes while a deadline is pending
Tick ==
  LET deadline == next_deadline(sm) IN
  /\ deadline.some
  /\ now < deadline.val + MaxLate
  /\ now' = now + 1
  /\ op' = "tick"
  /\ pre' = sm
  /\ event' = NoEvent
  /\ index' = 0
  /\ actions' = <<>>
  /\ panicked' = FALSE
  /\ resent' = FALSE
  /\ UNCHANGED << sm, down, synth, shown >>
  /\ UNCHANGED supervisor_vars
  /\ UNCHANGED control_vars
  /\ UNCHANGED other_vars

Next ==
  \/ DeviceEvent
  \/ TimerWake
  \/ IpcSelect
  \/ IpcDismiss
  \/ IpcSetEnabled
  \/ IpcSetLocale
  \/ Tick

Spec == Init /\ [][Next]_vars

(***************************************************************************)
(* The supervisor of main.rs with several grabbed keyboards: one            *)
(* StateMachine per keyboard in Shared.state_machines, device events        *)
(* routed by device_idx, one timer for the earliest deadline, and the       *)
(* Select and Dismiss messages of the popup clients.                        *)
(***************************************************************************)
\* the indices of Shared.state_machines: two grabbed keyboards
Devices == {0, 1}

\* the keys of each keyboard that the supervisor model presses
SupervisorKeys == {KEY_E, KEY_S}

\* config.locale.locales: the inline [locale.<name>] tables of the
\* configuration file
inline_locales == [mine |-> locale_inline]

\* Config::load_locale_map for config.locale.active = active, with no locale
\* file installed: the inline table if it is not empty, else the built-in
\* one if it is not empty, else an error
load_locale_map(active) ==
  IF active \in DOMAIN inline_locales /\ DOMAIN inline_locales[active] # {}
  THEN [ok |-> TRUE, map |-> inline_locales[active]]
  ELSE IF DOMAIN builtin_locale(active) # {}
  THEN [ok |-> TRUE, map |-> builtin_locale(active)]
  ELSE [ok |-> FALSE, map |-> builtin_locale(active)]

\* the locale names the daemon is started with, and those a SetLocale
\* message asks for ("xx" is no locale)
SupervisorLocales == {"de", "mine"}
RequestedLocales == {"de", "mine", "xx"}

\* what the kernel delivers for keyboard d
SupervisorEvents(d) ==
  {KeyEvent(c, 1) : c \in SupervisorKeys \ device_down[d]}
    \cup {KeyEvent(c, 0) : c \in device_down[d]}

\* a supervisor that looks at the deadline of the first keyboard only
Deadlines_first(machines) ==
  {next_deadline(machines[d]).val : d \in {e \in {0} : next_deadline(machines[e]).some}}

\* the Instants held by the machines, and the earliest deadline
Deadlines(machines) ==
  {next_deadline(machines[d]).val : d \in {e \in Devices : next_deadline(machines[e]).some}}
MinOf(S) == CHOOSE x \in S : \A y \in S : x <= y

\* Instants are only ever compared with each other: the clock and every
\* started are counted from the earliest started that a machine still holds
Epoch(machines, t) ==
  LET held == {machines[d].state.started : d \in {e \in Devices : machines[e].state.kind # "Idle"}}
  IN IF held = {} THEN t ELSE MinOf(held)
Rebase(machines, k) ==
  [d \in Devices |->
     IF machines[d].state.kind = "Idle" THEN machines[d]
     ELSE [machines[d] EXCEPT !.state.started = @ - k]]

SupervisorInit ==
  /\ \E active \in SupervisorLocales :
      LET map == load_locale_map(active).map IN
       /\ config_locale = active
       /\ state_machines = [d \in Devices |-> new(ThresholdMs, PopupTimeoutMs, TRUE, map)]
       /\ pre_machines = [d \in Devices |-> new(ThresholdMs, PopupTimeoutMs, TRUE, map)]
       /\ sm = new(ThresholdMs, PopupTimeoutMs, TRUE, map)
       /\ pre = new(ThresholdMs, PopupTimeoutMs, TRUE, map)
  /\ device_down = [d \in Devices |-> {}]
  /\ device_idx = 0
  /\ now = 0
  /\ down = {}
  /\ op = "new"
  /\ event = NoEvent
  /\ index = 0
  /\ actions = <<>>
  /\ panicked = FALSE
  /\ synth = {}
  /\ resent = FALSE
  /\ shown = <<>>
  /\ reply = NoReply
  /\ NoClients /\ NoTasks /\ NoPresses
  /\ NoShutdown /\ NoEmission /\ NoLine

\* one handler of the supervisor: the machines after it and the actions it
\* handed to process_actions
SupervisorStep(name, d, ev, i, machines, acts, panic) ==
  LET k == Epoch(machines, now) IN
  /\ op' = name
  /\ device_idx' = d
  /\ event' = ev
  /\ index' = i
  /\ actions' = acts
  /\ panicked' = panic
  /\ pre_machines' = Rebase(state_machines, k)
  /\ state_machines' = Rebase(machines, k)
  /\ now' = now - k
  /\ UNCHANGED device_vars
  /\ UNCHANGED other_vars

\* main loop, device branch: the event goes to state_machines[device_idx]
SupervisorDeviceEvent ==
  \E d \in Devices :
    \E ev \in SupervisorEvents(d) :
      LET r == process_event(state_machines[d], ev, now) IN
      /\ SupervisorStep("DeviceEvent", d, ev, 0,
                        [state_machines EXCEPT ![d] = r.sm], r.actions, FALSE)
      /\ reply' = NoReply
      /\ UNCHANGED config_locale
      /\ device_down' =
           [device_down EXCEPT ![d] = IF ev.value = 1 THEN @ \cup {ev.code}
                                      ELSE @ \ {ev.code}]

\* the actions of check_timer and of ipc_dismiss on every machine, in order
RECURSIVE TimerActions(_, _)
TimerActions(machines, d) ==
  IF d \notin Devices THEN <<>>
  ELSE check_timer(machines[d], now).actions \o TimerActions(machines, d + 1)
RECURSIVE DismissActions(_, _)
DismissActions(machines, d) ==
  IF d \notin Devices THEN <<>>
  ELSE ipc_dismiss(machines[d]).actions \o DismissActions(machines, d + 1)

\* main loop, timer branch: the sleep until the earliest deadline is over
SupervisorTimerWake ==
  /\ Deadlines(state_machines) # {}
  /\ now >= MinOf(Deadlines(state_machines))
  /\ SupervisorStep("TimerWake", 0, NoEvent, 0,
                    [d \in Devices |-> check_timer(state_machines[d], now).sm],
                    TimerActions(state_machines, 0), FALSE)
  /\ reply' = NoReply
  /\ UNCHANGED << device_down, config_locale >>

\* handle_ipc_client, ClientMsg::Select: find_map calls ipc_select on the
\* machines in order and stops at the first that returns actions
RECURSIVE SelectFrom(_, _, _, _)
SelectFrom(machines, d, i, overflow_checks) ==
  IF d \notin Devices
  THEN [machines |-> machines, actions |-> <<>>, panicked |-> FALSE]
  ELSE LET r == ipc_select(machines[d], i, overflow_checks) IN
       IF r.panicked
       THEN [machines |-> machines, actions |-> <<>>, panicked |-> TRUE]
       ELSE IF r.actions # <<>>
       THEN [machines |-> [machines EXCEPT ![d] = r.sm], actions |-> r.actions,
             panicked |-> FALSE]
       ELSE SelectFrom([machines EXCEPT ![d] = r.sm], d + 1, i, overflow_checks)

SupervisorSelect ==
  \E i \in 0..MaxIndex, overflow_checks \in BOOLEAN :
    LET r == SelectFrom(state_machines, 0, i, overflow_checks) IN
    /\ SupervisorStep("Select", 0, NoEvent, i, r.machines, r.actions, r.panicked)
    /\ reply' = IF r.panicked THEN NoReply ELSE Ack(TRUE)
    /\ UNCHANGED << device_down, config_locale >>

\* a Dismiss that stops at the first machine in Popup
SupervisorDismiss_first ==
  LET popups == {d \in Devices : state_machines[d].state.kind = "Popup"}
      first == IF popups = {} THEN 0 ELSE MinOf(popups)
  IN
  /\ SupervisorStep("Dismiss", 0, NoEvent, 0,
                    [state_machines EXCEPT ![first] = ipc_dismiss(@).sm],
                    ipc_dismiss(state_machines[first]).actions, FALSE)
  /\ reply' = NoReply
  /\ UNCHANGED << device_down, config_locale >>

\* handle_ipc_client, ClientMsg::Dismiss: ipc_dismiss on every machine, no
\* reply to the sender
SupervisorDismiss ==
  /\ SupervisorStep("Dismiss", 0, NoEvent, 0,
                    [d \in Devices |-> ipc_dismiss(state_machines[d]).sm],
                    DismissActions(state_machines, 0), FALSE)
  /\ reply' = NoReply
  /\ UNCHANGED << device_down, config_locale >>

\* a switch that reaches only the first machine
SupervisorSetEnabled_first ==
  \E cmd \in {"Toggle", "Enable", "Disable"} :
    LET new_state == CASE cmd = "Toggle" -> ~is_enabled(state_machines[0])
                       [] cmd = "Enable" -> TRUE
                       [] cmd = "Disable" -> FALSE
    IN
    /\ SupervisorStep(cmd, 0, NoEvent, 0,
                      [state_machines EXCEPT ![0] = set_enabled(@, new_state)],
                      <<>>, FALSE)
    /\ reply' = Ack(TRUE)
    /\ UNCHANGED << device_down, config_locale >>

\* handle_ipc_client, ClientMsg::Toggle / Enable / Disable: set_enabled on
\* every machine, an Ack to the sender, nothing for process_actions
SupervisorSetEnabled ==
  \E cmd \in {"Toggle", "Enable", "Disable"} :
    LET new_state == CASE cmd = "Toggle" -> ~is_enabled(state_machines[0])
                       [] cmd = "Enable" -> TRUE
                       [] cmd = "Disable" -> FALSE
    IN
    /\ SupervisorStep(cmd, 0, NoEvent, 0,
                      [d \in Devices |-> set_enabled(state_machines[d], new_state)],
                      <<>>, FALSE)
    /\ reply' = Ack(TRUE)
    /\ UNCHANGED << device_down, config_locale >>

\* handle_ipc_client, ClientMsg::SetLocale: the active locale is assigned,
\* then the map is loaded; the machines get it if loading succeeds
SupervisorSetLocale ==
  \E locale \in RequestedLocales :
    LET loaded == load_locale_map(locale) IN
    /\ config_locale' = locale
    /\ SupervisorStep("SetLocale", 0, NoEvent, 0,
                      IF loaded.ok
                      THEN [d \in Devices |-> set_locale_map(state_machines[d], loaded.map)]
                      ELSE state_machines,
                      <<>>, FALSE)
    /\ reply' = Ack(loaded.ok)
    /\ UNCHANGED device_down

\* handle_ipc_client, ClientMsg::GetStatus
SupervisorGetStatus ==
  /\ SupervisorStep("GetStatus", 0, NoEvent, 0, state_machines, <<>>, FALSE)
  /\ reply' = Status(is_enabled(state_machines[0]), config_locale)
  /\ UNCHANGED << device_down, config_locale >>

\* time passes while the main loop sleeps towards the earliest deadline
SupervisorTick ==
  /\ Deadlines(state_machines) # {}
  /\ now < MinOf(Deadlines(state_machines)) + MaxLate
  /\ now' = now + 1
  /\ op' = "tick"
  /\ pre_machines' = state_machines
  /\ event' = NoEvent
  /\ index' = 0
  /\ actions' = <<>>
  /\ panicked' = FALSE
  /\ reply' = NoReply
  /\ UNCHANGED << state_machines, device_down, device_idx, config_locale >>
  /\ UNCHANGED device_vars
  /\ UNCHANGED other_vars

SupervisorNext ==
  \/ SupervisorDeviceEvent
  \/ SupervisorTimerWake
  \/ SupervisorSelect
  \/ SupervisorDismiss
  \/ SupervisorSetEnabled
  \/ SupervisorSetLocale
  \/ SupervisorGetStatus
  \/ SupervisorTick

SupervisorSpec == SupervisorInit /\ [][SupervisorNext]_vars

\* The supervisor while no client switches the daemon off or changes its
\* locale.  tokio wakes the sleep of the main loop once its deadline has
\* passed, and select! polls its ready branches in random order, so the timer
\* branch is taken in the end whatever the keyboards and the clients send.
TimerNext ==
  \/ SupervisorDeviceEvent
  \/ SupervisorTimerWake
  \/ SupervisorSelect
  \/ SupervisorDismiss
  \/ SupervisorTick

TimerSpec ==
  /\ SupervisorInit
  /\ [][TimerNext]_vars
  /\ WF_vars(SupervisorTimerWake)
  /\ WF_vars(SupervisorTick)

(***************************************************************************)
(* The end of the daemon (main.rs): every grabber task holds a clone of     *)
(* event_tx and ends on a read error of its device; main has dropped its    *)
(* own event_tx, so event_rx.recv() yields None once the last grabber has   *)
(* ended, and select! takes `else => break` when that branch and the timer  *)
(* branch (if has_deadline) are both disabled.                              *)
(***************************************************************************)
\* grab_device: stream.next_event() fails, the task leaves its loop and drops
\* its sender
GrabberFail ==
  \E d \in grabbers :
    /\ main_loop = "running"
    /\ grabbers' = grabbers \ {d}
    /\ UNCHANGED << main_loop, socket_file >>
    /\ UNCHANGED << op, now, event, index, actions, panicked, supervisor_vars,
                    device_vars, control_vars >>
    /\ UNCHANGED << ipc_vars, lock_vars, panic_vars, emit_vars, codec_vars >>

\* the device branch of select!: an event sent by a grabber that is running
ShutdownDeviceEvent ==
  /\ main_loop = "running"
  /\ SupervisorDeviceEvent
  /\ device_idx' \in grabbers

\* the timer branch of select!
ShutdownTimerWake ==
  /\ main_loop = "running"
  /\ SupervisorTimerWake

ShutdownTick ==
  /\ main_loop = "running"
  /\ SupervisorTick

\* a loop that breaks as soon as the channel is closed
LoopBreak_ignore_deadline ==
  /\ main_loop = "running"
  /\ grabbers = {}
  /\ main_loop' = "done"
  /\ socket_file' = FALSE
  /\ UNCHANGED grabbers
  /\ UNCHANGED << op, now, event, index, actions, panicked, supervisor_vars,
                  device_vars, control_vars >>
  /\ UNCHANGED << ipc_vars, lock_vars, panic_vars, emit_vars, codec_vars >>

\* else => break: the channel is closed and no machine has a deadline; then
\* std::fs::remove_file(&socket_path) and main returns
LoopBreak ==
  /\ main_loop = "running"
  /\ grabbers = {}
  /\ Deadlines(state_machines) = {}
  /\ main_loop' = "done"
  /\ socket_file' = FALSE
  /\ UNCHANGED grabbers
  /\ UNCHANGED << op, now, event, index, actions, panicked, supervisor_vars,
                  device_vars, control_vars >>
  /\ UNCHANGED << ipc_vars, lock_vars, panic_vars, emit_vars, codec_vars >>

ShutdownNext ==
  \/ ShutdownDeviceEvent
  \/ ShutdownTimerWake
  \/ ShutdownTick
  \/ GrabberFail
  \/ LoopBreak

\* tokio wakes the sleep of the main loop once its deadline has passed, and
\* select! reaches its else branch as soon as it is polled with both other
\* branches disabled
ShutdownSpec ==
  /\ SupervisorInit
  /\ [][ShutdownNext]_vars
  /\ WF_vars(ShutdownTimerWake)
  /\ WF_vars(ShutdownTick)
  /\ WF_vars(LoopBreak)

(***************************************************************************)
(* The IPC side of main.rs: one handle_ipc_client task per connection with  *)
(* its unbounded channel (tx in the handler, clones of tx in                *)
(* Shared.popup_txs, rx in the writer task), and the broadcast of           *)
(* process_actions.  The machines are left out: whether a Select or a       *)
(* Dismiss finds a popup open is a free choice.                             *)
(***************************************************************************)
\* the lines the daemon produces in one run
MaxLines == 3

\* the connections the listener accepts
Clients == {1, 2}

\* what is known of the daemon's other parts while only the clients are
\* followed
DaemonAtRest ==
  /\ sm = new(ThresholdMs, PopupTimeoutMs, TRUE, locale_it)
  /\ pre = new(ThresholdMs, PopupTimeoutMs, TRUE, locale_it)
  /\ now = 0
  /\ down = {}
  /\ op = "new"
  /\ event = NoEvent
  /\ index = 0
  /\ actions = <<>>
  /\ panicked = FALSE
  /\ synth = {}
  /\ resent = FALSE
  /\ shown = <<>>
  /\ state_machines = <<>>
  /\ pre_machines = <<>>
  /\ device_down = <<>>
  /\ device_idx = 0
  /\ config_locale = "it"
  /\ reply = NoReply

\* the variables of DaemonAtRest that no IPC action changes
rest_vars ==
  << sm, pre, now, down, event, index, actions, panicked, synth, resent, shown,
     state_machines, pre_machines, device_down, device_idx, config_locale, reply >>

\* ipc::encode of a reply and of a popup message; n numbers the lines in the
\* order the daemon produced them
ReplyLine(kind, c, n) == [kind |-> kind, from |-> c, n |-> n]
PopupLine(n) == [kind |-> "popup", from |-> 0, n |-> n]

\* a connection that has not been accepted yet
NoClient ==
  [conn |-> "none", is_popup |-> FALSE, rx_alive |-> FALSE, since |-> 0, queue |-> <<>>]

\* UnboundedSender::send on the channel of client c: an error once rx is dropped
Send(cs, c, line) ==
  IF cs[c].rx_alive THEN [cs EXCEPT ![c].queue = Append(@, line)] ELSE cs

\* a broadcast to every connection, registered or not
Broadcast_all(cs, txs, k, line) ==
  [cs |-> [c \in Clients |->
             IF cs[c].conn = "open" THEN [cs[c] EXCEPT !.queue = Append(@, line)]
             ELSE cs[c]],
   txs |-> SelectSeq(txs, LAMBDA c : cs[c].rx_alive)]

\* process_actions, Action::SendPopup: popup_txs.retain(|tx| tx.send(line).is_ok()),
\* from the k-th sender on
RECURSIVE Broadcast(_, _, _, _)
Broadcast(cs, txs, k, line) ==
  IF k > Len(txs) THEN [cs |-> cs, txs |-> SelectSeq(txs, LAMBDA c : cs[c].rx_alive)]
  ELSE Broadcast(Send(cs, txs[k], line), txs, k + 1, line)

IpcInit ==
  /\ DaemonAtRest /\ NoTasks /\ NoPresses
  /\ NoShutdown /\ NoEmission /\ NoLine
  /\ clients = [c \in Clients |-> NoClient]
  /\ popup_txs = <<>>
  /\ produced = 0
  /\ sender = 0

\* the record of the handler that ran last
IpcStep(name, c) ==
  /\ op' = name
  /\ sender' = c
  /\ UNCHANGED rest_vars
  /\ UNCHANGED << lock_vars, panic_vars, shutdown_vars, emit_vars, codec_vars >>

\* listener.accept and the start of handle_ipc_client with its writer task
IpcConnect ==
  \E c \in Clients :
    /\ clients[c].conn = "none"
    /\ clients' = [clients EXCEPT ![c].conn = "open", ![c].rx_alive = TRUE]
    /\ IpcStep("Connect", c)
    /\ UNCHANGED << popup_txs, produced >>

\* ClientMsg::RegisterPopup
IpcRegister ==
  \E c \in Clients :
    /\ clients[c].conn = "open"
    /\ produced < MaxLines
    /\ produced' = produced + 1
    /\ popup_txs' = Append(popup_txs, c)
    /\ clients' =
         Send([clients EXCEPT ![c].is_popup = TRUE,
                              ![c].since = IF clients[c].is_popup THEN @ ELSE produced],
              c, ReplyLine("ack", c, produced + 1))
    /\ IpcStep("RegisterPopup", c)

\* ClientMsg::Toggle / Enable / Disable / SetLocale (an Ack) and GetStatus
\* (a Status): a reply to the sender only
IpcCommand ==
  \E c \in Clients, kind \in {"ack", "status"} :
    /\ clients[c].conn = "open"
    /\ produced < MaxLines
    /\ produced' = produced + 1
    /\ clients' = Send(clients, c, ReplyLine(kind, c, produced + 1))
    /\ IpcStep("Command", c)
    /\ UNCHANGED popup_txs

\* ClientMsg::Select: process_actions of what ipc_select returned (a HidePopup
\* if a popup was open with the index in range), then an Ack to the sender
IpcSelectMsg ==
  \E c \in Clients, hit \in BOOLEAN :
    /\ clients[c].conn = "open"
    /\ produced + 1 < MaxLines
    /\ LET b == IF hit THEN Broadcast(clients, popup_txs, 1, PopupLine(produced + 1))
                 ELSE [cs |-> clients, txs |-> popup_txs]
           n == IF hit THEN produced + 2 ELSE produced + 1
       IN /\ produced' = n
          /\ popup_txs' = b.txs
          /\ clients' = Send(b.cs, c, ReplyLine("ack", c, n))
    /\ IpcStep("Select", c)

\* ClientMsg::Dismiss: process_actions of what ipc_dismiss returned, no reply
IpcDismissMsg ==
  \E c \in Clients :
    /\ clients[c].conn = "open"
    /\ produced < MaxLines
    /\ LET b == Broadcast(clients, popup_txs, 1, PopupLine(produced + 1)) IN
       /\ produced' = produced + 1
       /\ popup_txs' = b.txs
       /\ clients' = b.cs
    /\ IpcStep("Dismiss", c)

\* main loop: process_actions of a ShowPopup or HidePopup that process_event
\* or check_timer returned
IpcDispatch ==
  /\ produced < MaxLines
  /\ LET b == Broadcast(clients, popup_txs, 1, PopupLine(produced + 1)) IN
     /\ produced' = produced + 1
     /\ popup_txs' = b.txs
     /\ clients' = b.cs
  /\ IpcStep("Dispatch", 0)

\* the client closes its end of the socket
IpcPeerClose ==
  \E c \in Clients :
    /\ clients[c].conn = "open"
    /\ clients' = [clients EXCEPT ![c].conn = "closed"]
    /\ IpcStep("PeerClose", c)
    /\ UNCHANGED << popup_txs, produced >>

\* writer task: write_all fails on the closed socket, the task ends and
\* drops rx
IpcWriterFail ==
  \E c \in Clients :
    /\ clients[c].conn = "closed"
    /\ clients[c].rx_alive
    /\ clients[c].queue # <<>>
    /\ clients' = [clients EXCEPT ![c].rx_alive = FALSE]
    /\ IpcStep("WriterFail", c)
    /\ UNCHANGED << popup_txs, produced >>

\* handle_ipc_client after the read loop: popup_txs.retain(|t| !t.is_closed())
\* if the client had registered, then write_handle.abort()
IpcFinish ==
  \E c \in Clients :
    /\ clients[c].conn = "closed"
    /\ popup_txs' = IF clients[c].is_popup
                     THEN SelectSeq(popup_txs, LAMBDA t : clients[t].rx_alive)
                     ELSE popup_txs
    /\ clients' = [clients EXCEPT ![c].conn = "done", ![c].rx_alive = FALSE]
    /\ IpcStep("Finish", c)
    /\ UNCHANGED produced

IpcNext ==
  \/ IpcConnect
  \/ IpcRegister
  \/ IpcCommand
  \/ IpcSelectMsg
  \/ IpcDismissMsg
  \/ IpcDispatch
  \/ IpcPeerClose
  \/ IpcWriterFail
  \/ IpcFinish

IpcSpec == IpcInit /\ [][IpcNext]_vars

(***************************************************************************)
(* The mutex around Shared (main.rs, Arc<Mutex<Shared>>): the main loop and *)
(* the handle_ipc_client tasks run on the threads of the tokio runtime and  *)
(* each takes the lock before it asks a machine for actions, and keeps it   *)
(* until process_actions has returned.  What the machines answer is left    *)
(* out: an action list is any of the lists below.                           *)
(***************************************************************************)
\* the action lists returned in one run
MaxBatches == 3

\* the main loop and two handle_ipc_client tasks
Tasks == {"main", "ipc1", "ipc2"}

\* the shapes of the lists a machine returns: nothing, a relay, a suppressed
\* key, a popup message with a relay or with an accent, two relays
ActionLists ==
  { <<>>,
    << "Relay" >>,
    << "Suppress" >>,
    << "SendPopup", "Relay" >>,
    << "SendPopup", "EmitAccent" >>,
    << "Relay", "Relay" >> }

\* a task that is not at the lock
IdleTask == [pc |-> "idle", batch |-> 0, done |-> 0]

LockInit ==
  /\ DaemonAtRest /\ NoClients /\ NoPresses
  /\ NoShutdown /\ NoEmission /\ NoLine
  /\ lock = "free"
  /\ tasks = [t \in Tasks |-> IdleTask]
  /\ sinks = <<>>
  /\ batches = <<>>

\* what no step of the lock touches
LockFrame ==
  UNCHANGED << op, rest_vars, ipc_vars, panic_vars, shutdown_vars, emit_vars,
               codec_vars >>

\* a device event or a timer wake arrives at the main loop, a message at a
\* handler: the task calls shared.lock().await
LockRequest(t) ==
  /\ tasks[t].pc = "idle"
  /\ Len(batches) + Cardinality({u \in Tasks : tasks[u].pc = "waiting"}) < MaxBatches
  /\ tasks' = [tasks EXCEPT ![t].pc = "waiting"]
  /\ UNCHANGED << lock, sinks, batches >>
  /\ LockFrame

\* a lock that is given to whoever asks
LockAcquire_nowait(t) ==
  /\ tasks[t].pc = "waiting"
  /\ \E list \in ActionLists :
       /\ batches' = Append(batches, list)
       /\ tasks' = [tasks EXCEPT ![t] = [pc |-> "dispatching",
                                          batch |-> Len(batches) + 1, done |-> 0]]
  /\ lock' = t
  /\ UNCHANGED sinks
  /\ LockFrame

\* shared.lock().await returns once the mutex is free; under the lock the
\* task gets its action list from process_event, check_timer, ipc_select or
\* ipc_dismiss
LockAcquire(t) ==
  /\ tasks[t].pc = "waiting"
  /\ lock = "free"
  /\ \E list \in ActionLists :
       /\ batches' = Append(batches, list)
       /\ tasks' = [tasks EXCEPT ![t] = [pc |-> "dispatching",
                                          batch |-> Len(batches) + 1, done |-> 0]]
  /\ lock' = t
  /\ UNCHANGED sinks
  /\ LockFrame

\* the sink of an action: the virtual device for Relay and EmitAccent, the
\* popup channels for SendPopup
SinkOf(action) == IF action = "SendPopup" THEN "popup_txs" ELSE "vdev"

\* one turn of the loop of process_actions: the next action of the list
\* reaches its sink (Suppress reaches none)
LockDispatch(t) ==
  /\ tasks[t].pc = "dispatching"
  /\ tasks[t].done < Len(batches[tasks[t].batch])
  /\ LET b == tasks[t].batch
         n == tasks[t].done + 1
         action == batches[b][n]
     IN /\ sinks' = IF action = "Suppress" THEN sinks
                    ELSE Append(sinks, [batch |-> b, n |-> n, action |-> action,
                                        sink |-> SinkOf(action), by |-> t])
        /\ tasks' = [tasks EXCEPT ![t].done = n]
  /\ UNCHANGED << lock, batches >>
  /\ LockFrame

\* process_actions has returned and the guard is dropped at the end of the
\* branch or of the match
LockRelease(t) ==
  /\ tasks[t].pc = "dispatching"
  /\ tasks[t].done = Len(batches[tasks[t].batch])
  /\ lock' = "free"
  /\ tasks' = [tasks EXCEPT ![t] = IdleTask]
  /\ UNCHANGED << sinks, batches >>
  /\ LockFrame

LockNext ==
  \E t \in Tasks :
    \/ LockRequest(t)
    \/ LockAcquire(t)
    \/ LockDispatch(t)
    \/ LockRelease(t)

LockSpec == LockInit /\ [][LockNext]_vars

(***************************************************************************)
(* The panic key combo of the main loop (main.rs): a ring of the last three *)
(* key presses with the Instant at which the loop took each of them, looked *)
(* at on every press before the event goes to a state machine.  The         *)
(* machines are left out.                                                   *)
(***************************************************************************)
\* the clock advances by this many milliseconds at a time
ClockStepMs == 500
\* and this many times in one run
MaxTicks == 2
\* the keys held down at once on the keyboards together
MaxHeld == 1

\* elapsed.as_millis() < 1000
PanicWindowMs == 1000

\* const PANIC_SEQ: [u16; 3] = [14, 1, 28]
PANIC_SEQ == << KEY_BACKSPACE, KEY_ESC, KEY_ENTER >>

\* the keys pressed on the grabbed keyboards
PanicKeys == {KEY_BACKSPACE, KEY_ESC, KEY_ENTER, KEY_E}

\* what a keyboard can send while the pairs in down (keyboard, key) are held
PanicEvents(d) ==
  {KeyEvent(code, 1) : code \in {c \in PanicKeys :
       << d, c >> \notin down /\ Cardinality(down) < MaxHeld}}
    \cup {KeyEvent(code, 0) : code \in {c \in PanicKeys : << d, c >> \in down}}
    \cup {KeyEvent(code, 2) : code \in {c \in PanicKeys : << d, c >> \in down}}
    \cup {SynEvent}

\* [(0, Instant::now()); 3]
PanicInit ==
  /\ DaemonAtRest /\ NoClients /\ NoTasks
  /\ NoShutdown /\ NoEmission /\ NoLine
  /\ panic_ring = [i \in 1..3 |-> [code |-> 0, at |-> 0]]
  /\ panic_idx = 0
  /\ exited = FALSE
  /\ presses = <<>>
  /\ delivered = FALSE

\* what the panic check leaves alone
panic_rest ==
  << sm, pre, index, actions, panicked, synth, resent, shown, state_machines,
     pre_machines, device_down, config_locale, reply, ipc_vars, lock_vars,
     shutdown_vars, emit_vars, codec_vars >>

\* panic_ring[panic_idx] = (code, Instant::now()); panic_idx = (panic_idx + 1) % 3
RingWrite(ring, idx, code, t) ==
  [ring |-> [ring EXCEPT ![idx + 1] = [code |-> code, at |-> t]],
   idx |-> (idx + 1) % 3]

\* the window with its end included
RingMatch_inclusive(ring, idx) ==
  LET oldest == idx % 3
      codes == << ring[oldest + 1].code,
                  ring[((oldest + 1) % 3) + 1].code,
                  ring[((oldest + 2) % 3) + 1].code >>
      elapsed == ring[((oldest + 2) % 3) + 1].at - ring[oldest + 1].at
  IN codes = PANIC_SEQ /\ elapsed <= PanicWindowMs

\* the ring read from the slot written last
RingMatch_newest_first(ring, idx) ==
  LET newest == (idx + 2) % 3
      codes == << ring[newest + 1].code,
                  ring[((newest + 1) % 3) + 1].code,
                  ring[((newest + 2) % 3) + 1].code >>
      elapsed == ring[newest + 1].at - ring[((newest + 1) % 3) + 1].at
  IN codes = PANIC_SEQ /\ elapsed < PanicWindowMs

\* the ring read from the oldest slot on (idx is panic_idx after the write):
\* codes == PANIC_SEQ and the newest press less than a second after the oldest
RingMatch(ring, idx) ==
  LET oldest == idx % 3
      codes == << ring[oldest + 1].code,
                  ring[((oldest + 1) % 3) + 1].code,
                  ring[((oldest + 2) % 3) + 1].code >>
      elapsed == ring[((oldest + 2) % 3) + 1].at - ring[oldest + 1].at
  IN codes = PANIC_SEQ /\ elapsed < PanicWindowMs

\* the last three of a list of presses
LastThree(ps) == IF Len(ps) > 3 THEN SubSeq(ps, Len(ps) - 2, Len(ps)) ELSE ps

\* the device branch of select!: the panic check on a key press, then, unless
\* the process has exited, the event goes to the machine of its keyboard
PanicDeviceEvent ==
  \E d \in Devices : \E ev \in PanicEvents(d) :
    /\ ~exited
    /\ event' = ev
    /\ device_idx' = d
    /\ op' = "DeviceEvent"
    /\ down' = IF (ev.type = "KEY" /\ ev.value = 1) THEN down \cup {<< d, ev.code >>}
               ELSE IF (ev.type = "KEY" /\ ev.value = 0) THEN down \ {<< d, ev.code >>}
               ELSE down
    /\ IF (ev.type = "KEY" /\ ev.value = 1)
       THEN LET w == RingWrite(panic_ring, panic_idx, ev.code, now)
            IN /\ panic_ring' = w.ring
               /\ panic_idx' = w.idx
               /\ exited' = RingMatch(w.ring, w.idx)
               /\ delivered' = ~RingMatch(w.ring, w.idx)
               /\ presses' = LastThree(Append(presses, [code |-> ev.code, at |-> now]))
       ELSE /\ delivered' = TRUE
            /\ UNCHANGED << panic_ring, panic_idx, exited, presses >>
    /\ UNCHANGED now
    /\ UNCHANGED panic_rest

\* time passes between two events
PanicTick ==
  /\ ~exited
  /\ now < MaxTicks * ClockStepMs
  /\ now' = now + ClockStepMs
  /\ op' = "Tick"
  /\ UNCHANGED << event, device_idx, down, panic_vars >>
  /\ UNCHANGED panic_rest

PanicNext == PanicDeviceEvent \/ PanicTick

PanicSpec == PanicInit /\ [][PanicNext]_vars

(***************************************************************************)
(* compose.rs: emit_accent types an accent on the virtual device as         *)
(* Backspace, Ctrl+Shift+U, the hex digits of the codepoint and Enter.  An  *)
(* EventEmitter takes batches of events; `?` ends emit_accent at the first  *)
(* emit_events that returns an error.  The sleeps are left out.             *)
(***************************************************************************)
\* the emit_events call that fails is one of the first MaxFailAt (0: none)
MaxFailAt == 9

\* the strings emit_accent is called with: empty, one codepoint of one to
\* five hex digits, or a base letter with a combining mark
Accents ==
  { <<>>, << 9 >>, << 224 >>, << 232 >>, << 241 >>, << 255 >>, << 339 >>,
    << 7838 >>, << 43981 >>, << 65535 >>, << 65536 >>, << 128512 >>,
    << 101, 769 >> }

\* accent.chars().next().unwrap_or(' ')
FirstChar(a) == IF a = <<>> THEN 32 ELSE Head(a)

\* the characters of a lowercase hex digit string
HexChars == << "0", "1", "2", "3", "4", "5", "6", "7", "8", "9",
               "a", "b", "c", "d", "e", "f" >>

\* format!("{:x}", c): the lowercase hex digits, nothing added
RECURSIVE format_x(_)
format_x(c) ==
  IF c < 16 THEN << HexChars[c + 1] >>
  ELSE Append(format_x(c \div 16), HexChars[(c % 16) + 1])

\* the digits without the padding
format_unpadded(c) == format_x(c)

\* format!("{:04x}", c): the lowercase hex digits, zero-padded to at least
\* four
format_04x(c) ==
  LET digits == format_x(c)
  IN CASE Len(digits) = 1 -> << "0", "0", "0" >> \o digits
       [] Len(digits) = 2 -> << "0", "0" >> \o digits
       [] Len(digits) = 3 -> << "0" >> \o digits
       [] OTHER -> digits

hex_char_to_key(c) ==
  CASE c = "0" -> KEY_0
    [] c = "1" -> KEY_1
    [] c = "2" -> KEY_2
    [] c = "3" -> KEY_3
    [] c = "4" -> KEY_4
    [] c = "5" -> KEY_5
    [] c = "6" -> KEY_6
    [] c = "7" -> KEY_7
    [] c = "8" -> KEY_8
    [] c = "9" -> KEY_9
    [] c = "a" -> KEY_A
    [] c = "b" -> KEY_B
    [] c = "c" -> KEY_C
    [] c = "d" -> KEY_D
    [] c = "e" -> KEY_E
    [] c = "f" -> KEY_F
    [] OTHER -> KEY_0

\* syn()
syn == SynEvent

\* an EventEmitter that has taken no batch yet and whose call number fail
\* returns an error
NewEmitter(fail) == [batches |-> <<>>, calls |-> 0, fail |-> fail, err |-> FALSE]

\* emitter.emit_events(events)?: after an error nothing more is called
emit_events(em, events) ==
  IF em.err THEN em
  ELSE IF em.calls + 1 = em.fail
  THEN [em EXCEPT !.calls = @ + 1, !.err = TRUE]
  ELSE [em EXCEPT !.calls = @ + 1, !.batches = Append(@, events)]

tap_key(em, key) ==
  emit_events(emit_events(em, << KeyEvent(key, 1), syn >>),
              << KeyEvent(key, 0), syn >>)

hold_key(em, key, press) ==
  emit_events(em, << KeyEvent(key, IF press THEN 1 ELSE 0), syn >>)

\* the events of phase 3 for the digits from the k-th on
RECURSIVE HexEvents(_, _)
HexEvents(hex, k) ==
  IF k > Len(hex) THEN <<>>
  ELSE << KeyEvent(hex_char_to_key(hex[k]), 1), syn,
          KeyEvent(hex_char_to_key(hex[k]), 0), syn >> \o HexEvents(hex, k + 1)

emit_accent(em, a) ==
  LET c == FirstChar(a)
      hex == format_04x(c)
      p1 == tap_key(em, KEY_BACKSPACE)
      p2 == hold_key(hold_key(tap_key(hold_key(hold_key(p1,
                 KEY_LEFTCTRL, TRUE), KEY_LEFTSHIFT, TRUE), KEY_U),
                 KEY_LEFTSHIFT, FALSE), KEY_LEFTCTRL, FALSE)
      events == HexEvents(hex, 1)
                  \o << KeyEvent(KEY_ENTER, 1), syn, KeyEvent(KEY_ENTER, 0), syn >>
  IN emit_events(p2, events)

EmitInit ==
  /\ DaemonAtRest /\ NoClients /\ NoTasks /\ NoPresses
  /\ NoShutdown /\ NoLine
  /\ NoEmission

\* process_actions, Action::EmitAccent: one call of emit_accent
EmitAccentCall ==
  \E a \in Accents, fail \in 0..MaxFailAt :
    LET em == emit_accent(NewEmitter(fail), a) IN
    /\ accent' = a
    /\ fail_at' = fail
    /\ emitter' = em.batches
    /\ emit_result' = IF em.err THEN "Err" ELSE "Ok"
    /\ op' = "emit_accent"
    /\ UNCHANGED rest_vars
    /\ UNCHANGED << ipc_vars, lock_vars, panic_vars, shutdown_vars, codec_vars >>

EmitNext == EmitAccentCall

EmitSpec == EmitInit /\ [][EmitNext]_vars

(***************************************************************************)
(* ipc.rs: the JSON-lines codec.  A line is a sequence of characters; the   *)
(* braces, colons, commas, brackets, the quoted field names and type tags   *)
(* and the words true and false are taken as one element each, the         *)
(* contents of strings and numbers character by character.  The decoders    *)
(* take the fields in the order in which serde writes them.                 *)
(***************************************************************************)
\* the strings a message carries at most
MaxAccents == 2

\* String values: plain, empty, and with the characters JSON escapes
Strings ==
  { <<>>, << "e" >>, << "i", "t" >>, << "\"" >>, << "\\" >>, << "\n" >>,
    << "\\", "n" >>, << "a", "\n", "b" >>, << " " >>, << "\t", "\"" >> }

\* u8 values
U8s == {0, 1, 9, 10, 99, 100, 255}

\* the accents of a ShowPopup: up to MaxAccents strings
AccentStrings == { <<>>, << "e" >>, << "\n" >> }
AccentLists == UNION { [1..n -> AccentStrings] : n \in 0..MaxAccents }

\* the labels of a ShowPopup
LabelLists == { <<>>, << 1, 2 >>, << 255, 0 >> }

DaemonMsgs ==
  { [type |-> "show_popup", base |-> b, accents |-> a, labels |-> l] :
      b \in {<< "e" >>, << "\"", "\\" >>}, a \in AccentLists, l \in LabelLists }
    \cup { [type |-> "hide_popup"] }
    \cup { [type |-> "status", enabled |-> e, locale |-> l, version |-> v] :
             e \in BOOLEAN, l \in Strings, v \in {<< "0", ".", "1" >>, << "\"" >>} }
    \cup { [type |-> "ack", ok |-> o, message |-> m] : o \in BOOLEAN, m \in Strings }

ClientMsgs ==
  { [type |-> "select", index |-> i] : i \in U8s }
    \cup { [type |-> t] :
             t \in {"dismiss", "toggle", "enable", "disable", "get_status",
                    "register_popup"} }
    \cup { [type |-> "set_locale", locale |-> l] : l \in Strings }

\* #[serde(rename = ...)]: the tag of a message type as it stands in the line
Tag(type) ==
  CASE type = "show_popup" -> "\"show_popup\""
    [] type = "hide_popup" -> "\"hide_popup\""
    [] type = "status" -> "\"status\""
    [] type = "ack" -> "\"ack\""
    [] type = "select" -> "\"select\""
    [] type = "dismiss" -> "\"dismiss\""
    [] type = "toggle" -> "\"toggle\""
    [] type = "enable" -> "\"enable\""
    [] type = "disable" -> "\"disable\""
    [] type = "set_locale" -> "\"set_locale\""
    [] type = "get_status" -> "\"get_status\""
    [] type = "register_popup" -> "\"register_popup\""

DaemonTypes == {"show_popup", "hide_popup", "status", "ack"}
ClientTypes ==
  {"select", "dismiss", "toggle", "enable", "disable", "set_locale", "get_status",
   "register_popup"}

\* a string written with its control characters as they are
EscapeChar_raw(c) ==
  CASE c = "\"" -> << "\\", "\"" >>
    [] c = "\\" -> << "\\", "\\" >>
    [] OTHER -> << c >>

\* serde_json: the quote, the backslash and the control characters of a
\* string are written as escapes
EscapeChar(c) ==
  CASE c = "\"" -> << "\\", "\"" >>
    [] c = "\\" -> << "\\", "\\" >>
    [] c = "\n" -> << "\\", "n" >>
    [] c = "\t" -> << "\\", "t" >>
    [] OTHER -> << c >>

RECURSIVE Escape(_)
Escape(str) == IF str = <<>> THEN <<>> ELSE EscapeChar(Head(str)) \o Escape(Tail(str))

JsonString(str) == << "\"" >> \o Escape(str) \o << "\"" >>

DigitChars == << "0", "1", "2", "3", "4", "5", "6", "7", "8", "9" >>

\* an integer in decimal
RECURSIVE JsonNumber(_)
JsonNumber(n) ==
  IF n < 10 THEN << DigitChars[n + 1] >>
  ELSE Append(JsonNumber(n \div 10), DigitChars[(n % 10) + 1])

JsonBool(b) == IF b THEN << "true" >> ELSE << "false" >>

\* an array of strings or of numbers from its k-th element on
RECURSIVE JsonItems(_, _, _)
JsonItems(items, k, strings) ==
  IF k > Len(items) THEN <<>>
  ELSE (IF k > 1 THEN << "," >> ELSE <<>>)
         \o (IF strings THEN JsonString(items[k]) ELSE JsonNumber(items[k]))
         \o JsonItems(items, k + 1, strings)

JsonArray(items, strings) == << "[" >> \o JsonItems(items, 1, strings) \o << "]" >>

\* serde_json::to_string of a message: the tag first, then the fields in the
\* order of their declaration
to_string(msg) ==
  << "{", "\"type\"", ":", Tag(msg.type) >>
    \o (CASE msg.type = "show_popup" ->
               << ",", "\"base\"", ":" >> \o JsonString(msg.base)
                 \o << ",", "\"accents\"", ":" >> \o JsonArray(msg.accents, TRUE)
                 \o << ",", "\"labels\"", ":" >> \o JsonArray(msg.labels, FALSE)
          [] msg.type = "status" ->
               << ",", "\"enabled\"", ":" >> \o JsonBool(msg.enabled)
                 \o << ",", "\"locale\"", ":" >> \o JsonString(msg.locale)
                 \o << ",", "\"version\"", ":" >> \o JsonString(msg.version)
          [] msg.type = "ack" ->
               << ",", "\"ok\"", ":" >> \o JsonBool(msg.ok)
                 \o << ",", "\"message\"", ":" >> \o JsonString(msg.message)
          [] msg.type = "select" ->
               << ",", "\"index\"", ":" >> \o JsonNumber(msg.index)
          [] msg.type = "set_locale" ->
               << ",", "\"locale\"", ":" >> \o JsonString(msg.locale)
          [] OTHER -> <<>>)
    \o << "}" >>

\* let mut s = serde_json::to_string(msg); s.push('\n'); s
encode(msg) == Append(to_string(msg), "\n")

\* white space as str::trim and serde_json see it
Whitespace == {" ", "\n", "\t", "\r"}

RECURSIVE TrimStart(_)
TrimStart(l) ==
  IF l # <<>> /\ Head(l) \in Whitespace THEN TrimStart(Tail(l)) ELSE l
RECURSIVE TrimEnd(_)
TrimEnd(l) ==
  IF l # <<>> /\ l[Len(l)] \in Whitespace THEN TrimEnd(SubSeq(l, 1, Len(l) - 1)) ELSE l

\* line.trim()
trim(l) == TrimEnd(TrimStart(l))

\* the result of reading a value: whether it was there, the value, and the
\* place after it
Read(val, next) == [ok |-> TRUE, val |-> val, next |-> next]
NoRead == [ok |-> FALSE, val |-> 0, next |-> 0]

\* the place of the next element that is not white space
RECURSIVE Skip(_, _)
Skip(l, i) == IF i <= Len(l) /\ l[i] \in Whitespace THEN Skip(l, i + 1) ELSE i

\* the elements of atoms, one after the other from place i, white space
\* between them allowed: the place after the last, or 0
RECURSIVE Expect(_, _, _)
Expect(l, i, atoms) ==
  IF i = 0 THEN 0
  ELSE IF atoms = <<>> THEN i
  ELSE LET j == Skip(l, i) IN
       IF j <= Len(l) /\ l[j] = Head(atoms) THEN Expect(l, j + 1, Tail(atoms)) ELSE 0

\* the inside of a string from place i, acc read so far
RECURSIVE ReadStringBody(_, _, _)
ReadStringBody(l, i, acc) ==
  IF i > Len(l) THEN NoRead
  ELSE IF l[i] = "\"" THEN Read(acc, i + 1)
  ELSE IF l[i] = "\\"
  THEN IF i + 1 > Len(l) THEN NoRead
       ELSE CASE l[i + 1] = "n" -> ReadStringBody(l, i + 2, Append(acc, "\n"))
              [] l[i + 1] = "t" -> ReadStringBody(l, i + 2, Append(acc, "\t"))
              [] l[i + 1] = "\"" -> ReadStringBody(l, i + 2, Append(acc, "\""))
              [] l[i + 1] = "\\" -> ReadStringBody(l, i + 2, Append(acc, "\\"))
              [] OTHER -> NoRead
  ELSE IF l[i] \in {"\n", "\t", "\r"} THEN NoRead
  ELSE ReadStringBody(l, i + 1, Append(acc, l[i]))

ReadString(l, i) ==
  LET j == Skip(l, i) IN
  IF i = 0 \/ j > Len(l) \/ l[j] # "\"" THEN NoRead ELSE ReadStringBody(l, j + 1, <<>>)

DigitValue(c) == CHOOSE v \in 0..9 : DigitChars[v + 1] = c
IsDigit(c) == \E v \in 0..9 : DigitChars[v + 1] = c

\* the digits of a number from place i, n read so far
RECURSIVE ReadDigits(_, _, _)
ReadDigits(l, i, n) ==
  IF i <= Len(l) /\ IsDigit(l[i]) THEN ReadDigits(l, i + 1, 10 * n + DigitValue(l[i]))
  ELSE Read(n, i)

\* a u8: decimal digits without a leading zero, at most 255
ReadU8(l, i) ==
  LET j == Skip(l, i) IN
  IF i = 0 \/ j > Len(l) \/ ~IsDigit(l[j]) THEN NoRead
  ELSE IF l[j] = "0" /\ j + 1 <= Len(l) /\ IsDigit(l[j + 1]) THEN NoRead
  ELSE LET r == ReadDigits(l, j, 0) IN
       IF r.val > 255 THEN NoRead ELSE r

ReadBool(l, i) ==
  LET j == Skip(l, i) IN
  IF i = 0 \/ j > Len(l) THEN NoRead
  ELSE IF l[j] = "true" THEN Read(TRUE, j + 1)
  ELSE IF l[j] = "false" THEN Read(FALSE, j + 1)
  ELSE NoRead

\* the elements of an array after its first, acc read so far
RECURSIVE ReadItems(_, _, _, _)
ReadItems(l, i, acc, strings) ==
  LET j == Skip(l, i) IN
  IF j > Len(l) THEN NoRead
  ELSE IF l[j] = "]" THEN Read(acc, j + 1)
  ELSE IF l[j] = ","
  THEN LET r == IF strings THEN ReadString(l, j + 1) ELSE ReadU8(l, j + 1) IN
       IF r.ok THEN ReadItems(l, r.next, Append(acc, r.val), strings) ELSE NoRead
  ELSE NoRead

ReadArray(l, i, strings) ==
  LET j == Expect(l, i, << "[" >>)
      k == Skip(l, j)
  IN IF j = 0 \/ k > Len(l) THEN NoRead
     ELSE IF l[k] = "]" THEN Read(<<>>, k + 1)
     ELSE LET r == IF strings THEN ReadString(l, k) ELSE ReadU8(l, k) IN
          IF r.ok THEN ReadItems(l, r.next, << r.val >>, strings) ELSE NoRead

\* the place after the closing brace if nothing but white space follows it
Closed(l, i) ==
  LET j == Expect(l, i, << "}" >>) IN j # 0 /\ Skip(l, j) = Len(l) + 1

\* serde_json::from_str::<T>(l).ok() for the message types of T
from_str(l, types) ==
  LET i == Expect(l, 1, << "{", "\"type\"", ":" >>)
      j == Skip(l, i)
      known == {t \in types : i # 0 /\ j <= Len(l) /\ l[j] = Tag(t)}
  IN IF known = {} THEN None
     ELSE LET t == CHOOSE x \in known : TRUE IN
       CASE t = "show_popup" ->
              LET b == ReadString(l, Expect(l, j + 1, << ",", "\"base\"", ":" >>))
                  a == IF b.ok
                       THEN ReadArray(l, Expect(l, b.next, << ",", "\"accents\"", ":" >>), TRUE)
                       ELSE NoRead
                  n == IF a.ok
                       THEN ReadArray(l, Expect(l, a.next, << ",", "\"labels\"", ":" >>), FALSE)
                       ELSE NoRead
              IN IF n.ok /\ Closed(l, n.next)
                 THEN Some([type |-> t, base |-> b.val, accents |-> a.val, labels |-> n.val])
                 ELSE None
         [] t = "status" ->
              LET e == ReadBool(l, Expect(l, j + 1, << ",", "\"enabled\"", ":" >>))
                  c == IF e.ok
                       THEN ReadString(l, Expect(l, e.next, << ",", "\"locale\"", ":" >>))
                       ELSE NoRead
                  v == IF c.ok
                       THEN ReadString(l, Expect(l, c.next, << ",", "\"version\"", ":" >>))
                       ELSE NoRead
              IN IF v.ok /\ Closed(l, v.next)
                 THEN Some([type |-> t, enabled |-> e.val, locale |-> c.val, version |-> v.val])
                 ELSE None
         [] t = "ack" ->
              LET o == ReadBool(l, Expect(l, j + 1, << ",", "\"ok\"", ":" >>))
                  m == IF o.ok
                       THEN ReadString(l, Expect(l, o.next, << ",", "\"message\"", ":" >>))
                       ELSE NoRead
              IN IF m.ok /\ Closed(l, m.next)
                 THEN Some([type |-> t, ok |-> o.val, message |-> m.val])
                 ELSE None
         [] t = "select" ->
              LET n == ReadU8(l, Expect(l, j + 1, << ",", "\"index\"", ":" >>))
              IN IF n.ok /\ Closed(l, n.next) THEN Some([type |-> t, index |-> n.val])
                 ELSE None
         [] t = "set_locale" ->
              LET c == ReadString(l, Expect(l, j + 1, << ",", "\"locale\"", ":" >>))
              IN IF c.ok /\ Closed(l, c.next) THEN Some([type |-> t, locale |-> c.val])
                 ELSE None
         [] OTHER -> IF Closed(l, j + 1) THEN Some([type |-> t]) ELSE None

decode_daemon(l) ==
  LET trimmed == trim(l) IN
  IF trimmed = <<>> THEN None ELSE from_str(trimmed, DaemonTypes)

decode_client(l) ==
  LET trimmed == trim(l) IN
  IF trimmed = <<>> THEN None ELSE from_str(trimmed, ClientTypes)

\* lines of white space only
BlankLines == { <<>>, << " " >>, << "\n" >>, << " ", " ", " " >>, << "\t", "\n" >>,
                << "\r", "\n" >> }

\* the encodings of a few messages cut short
CutMsgs ==
  { [type |-> "hide_popup"], [type |-> "select", index |-> 10],
    [type |-> "set_locale", locale |-> << "i", "t" >>],
    [type |-> "ack", ok |-> TRUE, message |-> << "\"" >>],
    [type |-> "show_popup", base |-> << "e" >>, accents |-> << << "e" >> >>,
     labels |-> << 1 >>] }
CutLines ==
  UNION { { SubSeq(to_string(m), 1, k) : k \in 1..(Len(to_string(m)) - 1) } : m \in CutMsgs }

\* lines that are no JSON, and JSON with a type tag of neither enum or with
\* none
OtherLines ==
  { << "n", "o", "t", " ", "j", "s", "o", "n" >>,
    << "{", "\"type\"", ":", "\"unknown_variant\"", "}" >>,
    << "{", "}" >>,
    << "{", "\"type\"", ":", "\"select\"", ",", "\"index\"", ":", "2", "5", "6", "}" >>,
    << "[", "]" >> }

\* well-formed lines with white space around and inside them
PaddedLines ==
  { << " ", "{", "\"type\"", ":", "\"dismiss\"", "}", "\r", "\n" >>,
    << "{", " ", "\"type\"", " ", ":", "\"hide_popup\"", " ", "}", "\n" >> }

CodecInit ==
  /\ DaemonAtRest /\ NoClients /\ NoTasks /\ NoPresses
  /\ NoShutdown /\ NoEmission
  /\ NoLine

\* a line has gone out and come in
CodecStep(name, msg, l) ==
  /\ op' = name
  /\ codec_msg' = msg
  /\ codec_line' = l
  /\ decoded' = [daemon |-> decode_daemon(l), client |-> decode_client(l)]
  /\ UNCHANGED rest_vars
  /\ UNCHANGED << ipc_vars, lock_vars, panic_vars, shutdown_vars, emit_vars >>

\* the daemon encodes a message, a client reads the line
EncodeDaemonMsg == \E m \in DaemonMsgs : CodecStep("encode_daemon", m, encode(m))

\* a client encodes a message, the daemon reads the line
EncodeClientMsg == \E m \in ClientMsgs : CodecStep("encode_client", m, encode(m))

\* a line that no encode has written arrives
DecodeLine ==
  \E l \in BlankLines \cup CutLines \cup OtherLines \cup PaddedLines :
    CodecStep("decode", [type |-> "none"], l)

CodecNext == EncodeDaemonMsg \/ EncodeClientMsg \/ DecodeLine

CodecSpec == CodecInit /\ [][CodecNext]_vars

(***************************************************************************)
(* Properties.  Each is stated over the operation that ran last: op, the   *)
(* machine before it (pre), its input (event, index), the machine after it *)
(* (sm) and the actions it returned.                                       *)
(***************************************************************************)
IsKey(ev, value) == ev.type = "KEY" /\ ev.value = value
Eligible(code) == keycode_to_base(code).some
\* the time between the start of the hold of pre and the operation
Elapsed == now - pre.state.started
\* the keys that were down when the operation began
DownBefore ==
  IF op = "process_event" /\ IsKey(event, 1) THEN down \ {event.code}
  ELSE IF op = "process_event" /\ IsKey(event, 0) THEN down \cup {event.code}
  ELSE down
VetoKeys ==
  {KEY_LEFTCTRL, KEY_RIGHTCTRL, KEY_LEFTALT, KEY_RIGHTALT, KEY_LEFTMETA, KEY_RIGHTMETA}

\* C1: a press of an accent-eligible key given to an Idle machine, whatever
\* its modifier flags, locale map and enabled flag, returns exactly
\* [Relay(event)], whether or not the machine enters Holding.
C1_ZeroLatencyBase ==
  (op = "process_event" /\ pre.state.kind = "Idle" /\ IsKey(event, 1)
     /\ Eligible(event.code))
    => actions = << Relay(event) >>

C1_Witness ==
  /\ op = "process_event" /\ pre.state.kind = "Idle" /\ IsKey(event, 1)
  /\ Eligible(event.code)
  /\ sm.state.kind = "Holding"
  /\ actions = << Relay(event) >>

\* C2: no input event is relayed twice, and the release of a held key reaches
\* the virtual device once: when check_timer has synthesized it, the physical
\* release that arrives later is not relayed, however the popup was closed.
C2_NoDoubleRelay ==
  /\ op = "process_event" => CountRelay(actions, event) <= 1
  /\ (op = "process_event" /\ IsKey(event, 0) /\ resent) => ~HasRelay(actions)

\* C3: an enabled machine in Holding or Popup answers a repeat of its held
\* key with exactly [Suppress] and is left unchanged, deadline included.
C3_AutorepeatSuppression ==
  (op = "process_event" /\ pre.enabled /\ pre.state.kind \in {"Holding", "Popup"}
     /\ event = KeyEvent(pre.state.key_code, 2))
    => (actions = << Suppress >> /\ sm = pre)

C3_Witness ==
  /\ op = "process_event" /\ pre.enabled /\ pre.state.kind = "Popup"
  /\ event = KeyEvent(pre.state.key_code, 2)
  /\ actions = << Suppress >>
  /\ sm.state.kind = "Popup"

\* C4: every operation that takes the machine from Popup back to Idle hands
\* exactly one SendPopup(HidePopup) to the supervisor's dispatch.
C4_PopupConvergence ==
  (pre.state.kind = "Popup" /\ sm.state.kind = "Idle")
    => CountMsg(actions, "hide_popup") = 1

\* C5: EmitAccent comes only from a selection made in Popup with a number n in
\* 1..len(accents), by a digit key press or by ipc_select; such a selection
\* returns exactly [SendPopup(HidePopup), EmitAccent(accents[n])], and the
\* accents of a machine in Popup are those of the ShowPopup that opened it.
C5_Selected(n) ==
  \/ op = "process_event" /\ pre.enabled /\ IsKey(event, 1)
       /\ keycode_to_digit(event.code) = Some(n)
  \/ op = "ipc_select" /\ index = n

C5_EmitOnlyBySelection ==
  /\ HasTag(actions, "EmitAccent")
       => /\ pre.state.kind = "Popup"
          /\ \E n \in 1..Len(pre.state.accents) : C5_Selected(n)
  /\ \A n \in 1..Len(pre.state.accents) :
       (pre.state.kind = "Popup" /\ C5_Selected(n))
         => actions = << SendPopup(HidePopup), EmitAccent(pre.state.accents[n]) >>
  /\ sm.state.kind = "Popup" => shown = sm.state.accents

C5_Witness ==
  /\ op = "ipc_select" /\ index = 2 /\ pre.state.kind = "Popup"
  /\ shown = <<>>
  /\ actions = << SendPopup(HidePopup), EmitAccent(pre.state.accents[2]) >>

\* C6: check_timer on a Holding machine returns nothing and changes nothing
\* below the threshold; from the threshold on it returns the release of the
\* held key, then ShowPopup with labels 1..len(accents), and the machine is
\* in Popup with the same base, accents and key_code.
C6_ThresholdTransition ==
  (op = "check_timer" /\ pre.state.kind = "Holding")
    => IF Elapsed < pre.threshold_ms
       THEN actions = <<>> /\ sm = pre
       ELSE /\ actions =
                 << Relay(KeyEvent(pre.state.key_code, 0)),
                    SendPopup(ShowPopup(pre.state.base, pre.state.accents,
                                        [i \in 1..Len(pre.state.accents) |-> i])) >>
            /\ sm.state.kind = "Popup"
            /\ sm.state.base = pre.state.base
            /\ sm.state.accents = pre.state.accents
            /\ sm.state.key_code = pre.state.key_code

C6_Witness ==
  /\ op = "check_timer" /\ pre.state.kind = "Holding"
  /\ Elapsed = pre.threshold_ms
  /\ sm.state.kind = "Popup"
  /\ Len(actions) = 2

\* C7: next_deadline is None exactly in Idle, started + threshold_ms in
\* Holding and started + popup_timeout_ms in Popup, and an operation that
\* leaves the machine in the same Holding or Popup does not move it.
C7_DeadlineMonotonicity ==
  /\ next_deadline(sm).some <=> sm.state.kind # "Idle"
  /\ sm.state.kind = "Holding"
       => next_deadline(sm) = Some(sm.state.started + sm.threshold_ms)
  /\ sm.state.kind = "Popup"
       => next_deadline(sm) = Some(sm.state.started + sm.popup_timeout_ms)
  /\ (pre.state.kind = sm.state.kind /\ sm.state.kind # "Idle")
       => next_deadline(sm) = next_deadline(pre)

C7_Witness ==
  /\ op = "process_event" /\ pre.state.kind = "Holding" /\ sm.state.kind = "Holding"
  /\ IsKey(event, 0)
  /\ now > sm.state.started
  /\ next_deadline(sm) = Some(sm.state.started + sm.threshold_ms)

\* C8: as long as the machine is not taken to Popup, process_event relays its
\* event, except a repeat of the held key, which it suppresses; no other
\* operation returns an action; no SendPopup and no EmitAccent is returned;
\* and a release of the held key or a press of any key ends the hold.
C8_PassThrough ==
  (pre.state.kind # "Popup" /\ sm.state.kind # "Popup")
    => /\ op = "process_event"
            => actions =
                 IF pre.state.kind = "Holding" /\ event = KeyEvent(pre.state.key_code, 2)
                 THEN << Suppress >>
                 ELSE << Relay(event) >>
       /\ op # "process_event" => actions = <<>>
       /\ (op = "process_event" /\ pre.state.kind = "Holding"
             /\ (event = KeyEvent(pre.state.key_code, 0) \/ IsKey(event, 1)))
            => sm.state.kind = "Idle"

C8_Witness ==
  /\ op = "process_event" /\ pre.state.kind = "Holding"
  /\ IsKey(event, 1) /\ event.code # pre.state.key_code
  /\ sm.state.kind = "Idle"
  /\ actions = << Relay(event) >>

\* C9: while a ctrl, alt or super key, left or right, is physically down, the
\* flag of that modifier is set, and a press of an eligible key given to an
\* Idle machine returns [Relay(event)] and leaves it Idle.
C9_ModifierVeto ==
  /\ (down \cap {KEY_LEFTCTRL, KEY_RIGHTCTRL} # {}) => sm.ctrl_held
  /\ (down \cap {KEY_LEFTALT, KEY_RIGHTALT} # {}) => sm.alt_held
  /\ (down \cap {KEY_LEFTMETA, KEY_RIGHTMETA} # {}) => sm.super_held
  /\ (op = "process_event" /\ pre.state.kind = "Idle" /\ IsKey(event, 1)
        /\ Eligible(event.code) /\ DownBefore \cap VetoKeys # {})
       => (actions = << Relay(event) >> /\ sm.state.kind = "Idle")

\* the case of C10: an enabled machine in Popup is given a press of a digit
\* key whose number is above the number of accents
C10_Case ==
  /\ op = "process_event" /\ pre.enabled /\ pre.state.kind = "Popup"
  /\ IsKey(event, 1)
  /\ keycode_to_digit(event.code).some
  /\ keycode_to_digit(event.code).val > Len(pre.state.accents)

\* C10 as claimed: an out-of-range digit in Popup moves the machine to Idle
\* and returns exactly [SendPopup(HidePopup)].
C10_OutOfRangeDigit_Claimed ==
  C10_Case => (sm.state.kind = "Idle" /\ actions = << SendPopup(HidePopup) >>)

\* C10 as amended: an out-of-range digit in Popup moves the machine to Idle
\* and returns exactly [SendPopup(HidePopup), Relay(event)]: no accent is
\* emitted and the digit press itself is relayed.
C10_OutOfRangeDigit ==
  C10_Case
    => (sm.state.kind = "Idle" /\ actions = << SendPopup(HidePopup), Relay(event) >>)

C10_Witness ==
  /\ C10_Case
  /\ sm.state.kind = "Idle"
  /\ ~HasTag(actions, "EmitAccent")

\* the modifier keys of update_modifiers
ModifierKeys ==
  {KEY_LEFTCTRL, KEY_RIGHTCTRL, KEY_LEFTALT, KEY_RIGHTALT,
   KEY_LEFTMETA, KEY_RIGHTMETA, KEY_LEFTSHIFT, KEY_RIGHTSHIFT}

\* C11: in every state, enabled or not, process_event of a press, release or
\* repeat of a modifier key updates the held flags and returns exactly
\* [Relay(event)].
C11_ModifierRelay ==
  (op = "process_event" /\ event.type = "KEY" /\ event.code \in ModifierKeys)
    => /\ actions = << Relay(event) >>
       /\ [sm EXCEPT !.state = pre.state] = update_modifiers(pre, event)

\* C12: in Popup, a release of the held key and a press of ESC each move the
\* machine to Idle and return exactly [SendPopup(HidePopup), Suppress].
C12_PopupDismiss ==
  (op = "process_event" /\ pre.state.kind = "Popup"
     /\ event \in {KeyEvent(pre.state.key_code, 0), KeyEvent(KEY_ESC, 1)})
    => (sm.state.kind = "Idle" /\ actions = << SendPopup(HidePopup), Suppress >>)

C12_Witness ==
  /\ op = "process_event" /\ pre.state.kind = "Popup"
  /\ event = KeyEvent(pre.state.key_code, 0)
  /\ sm.state.kind = "Idle"
  /\ actions = << SendPopup(HidePopup), Suppress >>

\* C13: in Popup, a press of a key that is neither ESC nor a digit key moves
\* the machine to Idle and returns exactly [SendPopup(HidePopup),
\* Relay(event)]: the key is delivered once, after the hide notification.
C13_PopupOtherPress ==
  (op = "process_event" /\ pre.state.kind = "Popup" /\ IsKey(event, 1)
     /\ event.code # KEY_ESC /\ ~keycode_to_digit(event.code).some)
    => (sm.state.kind = "Idle" /\ actions = << SendPopup(HidePopup), Relay(event) >>)

C13_Witness ==
  /\ op = "process_event" /\ pre.state.kind = "Popup" /\ IsKey(event, 1)
  /\ event.code = KEY_S
  /\ sm.state.kind = "Idle"
  /\ actions = << SendPopup(HidePopup), Relay(event) >>

\* C14: in Popup, a release or a repeat of a key other than the held key
\* returns exactly [Suppress]; the machine stays in the same Popup, its
\* deadline unchanged.
C14_PopupIgnore ==
  (op = "process_event" /\ pre.state.kind = "Popup" /\ event.type = "KEY"
     /\ event.value \in {0, 2} /\ event.code # pre.state.key_code)
    => /\ actions = << Suppress >>
       /\ sm.state = pre.state
       /\ next_deadline(sm) = next_deadline(pre)

C14_Witness ==
  /\ op = "process_event" /\ pre.state.kind = "Popup" /\ IsKey(event, 0)
  /\ event.code # pre.state.key_code
  /\ actions = << Suppress >>
  /\ sm.state.kind = "Popup"

\* C15: ipc_select and ipc_dismiss on a machine that is Idle or Holding
\* return no action and leave the machine as it was, a pending hold and its
\* deadline included.
C15_IpcOutsidePopup ==
  (op \in {"ipc_select", "ipc_dismiss"} /\ pre.state.kind # "Popup")
    => (actions = <<>> /\ sm = pre /\ ~panicked
        /\ next_deadline(sm) = next_deadline(pre))

C15_Witness ==
  /\ op = "ipc_dismiss" /\ pre.state.kind = "Holding"
  /\ sm.state.kind = "Holding" /\ now > 0
  /\ actions = <<>>

\* the SendPopup and EmitAccent actions of a list, in order
PopupActions(acts) ==
  SelectSeq(acts, LAMBDA a : a.tag \in {"SendPopup", "EmitAccent"})

\* C16: on a machine in Popup, ipc_select(n) with n in 1..9 leaves the same
\* state and returns the same SendPopup and EmitAccent actions as a press of
\* the digit key n, and ipc_dismiss() the same as a press of ESC.
C16_IpcEquivalence ==
  /\ (op = "ipc_select" /\ pre.state.kind = "Popup" /\ index \in 1..9 /\ ~panicked)
       => LET key == process_event(pre, KeyEvent(index + 1, 1), now)
          IN /\ keycode_to_digit(index + 1) = Some(index)
             /\ sm.state = key.sm.state
             /\ PopupActions(actions) = PopupActions(key.actions)
  /\ (op = "ipc_dismiss" /\ pre.state.kind = "Popup")
       => LET key == process_event(pre, KeyEvent(KEY_ESC, 1), now)
          IN /\ sm.state = key.sm.state
             /\ PopupActions(actions) = PopupActions(key.actions)

\* C17: a disabled machine is Idle; while disabled, process_event returns
\* exactly [Relay(event)] and starts no hold; set_enabled(false) on a machine
\* in Holding or Popup leaves it Idle.
C17_DisabledTransparent ==
  /\ ~sm.enabled => sm.state.kind = "Idle"
  /\ (op = "process_event" /\ ~pre.enabled)
       => (actions = << Relay(event) >> /\ sm.state.kind = "Idle")
  /\ (op = "set_enabled" /\ ~sm.enabled) => sm.state.kind = "Idle"

C17_Witness ==
  /\ op = "process_event" /\ ~pre.enabled /\ IsKey(event, 1)
  /\ event.code = KEY_E
  /\ actions = << Relay(event) >>
  /\ sm.state.kind = "Idle"

\* the shift keys
ShiftKeys == {KEY_LEFTSHIFT, KEY_RIGHTSHIFT}

\* C18: the accents of a hold, and of the ShowPopup it leads to, are the
\* upper-case forms of the locale entry if a shift key was down when the
\* eligible key was pressed, and the entry itself otherwise; a hold keeps its
\* accents until it ends, whatever happens to the shift keys.
C18_CaseMapping ==
  /\ (op = "process_event" /\ pre.state.kind = "Idle" /\ sm.state.kind = "Holding")
       => sm.state.accents =
            IF DownBefore \cap ShiftKeys # {}
            THEN [i \in 1..Len(sm.locale_map[sm.state.base]) |->
                    to_uppercase(sm.locale_map[sm.state.base][i])]
            ELSE sm.locale_map[sm.state.base]
  /\ (pre.state.kind = "Holding" /\ sm.state.kind # "Idle")
       => sm.state.accents = pre.state.accents
  /\ (op = "check_timer" /\ pre.state.kind = "Holding" /\ sm.state.kind = "Popup")
       => shown = pre.state.accents

\* C19: a machine in Holding or Popup has a non-empty accents list, which is
\* the entry of its base in the machine's current locale map, case-adjusted
\* by the shift captured when the hold began.
C19_HoldStateInvariant ==
  /\ sm.state.kind \in {"Idle", "Holding", "Popup"}
  /\ sm.state.kind = "Holding"
       => /\ sm.state.accents # <<>>
          /\ resolve_accents(sm.locale_map, sm.state.base, sm.state.shift)
               = Some(sm.state.accents)
  /\ sm.state.kind = "Popup"
       => /\ sm.state.accents # <<>>
          /\ \E shift \in BOOLEAN :
               resolve_accents(sm.locale_map, sm.state.base, shift)
                 = Some(sm.state.accents)
  /\ op = "set_locale_map" => sm.state.kind = "Idle"

C19_Witness ==
  /\ op = "set_locale_map" /\ pre.state.kind = "Popup"
  /\ sm.locale_map # pre.locale_map
  /\ sm.state.kind = "Idle"

\* the machines that were in Popup when the operation began
PopupBefore == {d \in Devices : pre_machines[d].state.kind = "Popup"}

\* C20: a Select message is applied to the lowest-indexed machine that is in
\* Popup and to no other machine: every other machine, also one in Popup, is
\* left as it was.
C20_SelectRouting ==
  (op = "Select" /\ ~panicked)
    => IF PopupBefore = {}
       THEN state_machines = pre_machines /\ actions = <<>>
       ELSE LET first == MinOf(PopupBefore) IN
            /\ \A d \in Devices \ {first} : state_machines[d] = pre_machines[d]
            /\ \E overflow_checks \in BOOLEAN :
                 LET r == ipc_select(pre_machines[first], index, overflow_checks) IN
                 r.sm = state_machines[first] /\ r.actions = actions

\* C21: after a Dismiss message no machine is in Popup: every machine that
\* was in Popup is Idle and contributed one HidePopup, and every machine that
\* was Idle or Holding is as it was.
C21_DismissBroadcast ==
  op = "Dismiss"
    => /\ \A d \in Devices :
            /\ state_machines[d].state.kind # "Popup"
            /\ d \in PopupBefore => state_machines[d] = [pre_machines[d] EXCEPT !.state = Idle]
            /\ d \notin PopupBefore => state_machines[d] = pre_machines[d]
       /\ actions = [i \in 1..Cardinality(PopupBefore) |-> SendPopup(HidePopup)]

C21_Witness ==
  /\ op = "Dismiss"
  /\ pre_machines[0].state.kind = "Holding"
  /\ pre_machines[1].state.kind = "Popup"
  /\ state_machines[0].state.kind = "Holding"
  /\ state_machines[1].state.kind = "Idle"
  /\ actions = << SendPopup(HidePopup) >>

\* C22: whenever a handler can observe the shared state, all machines have
\* the same enabled flag; Toggle inverts it on every machine, Enable and
\* Disable set it on every machine, and GetStatus reports it.
C22_EnableAtomic ==
  /\ \A d, e \in Devices : state_machines[d].enabled = state_machines[e].enabled
  /\ op = "Toggle"
       => \A d \in Devices : state_machines[d].enabled = ~pre_machines[d].enabled
  /\ op = "Enable" => \A d \in Devices : state_machines[d].enabled
  /\ op = "Disable" => \A d \in Devices : ~state_machines[d].enabled
  /\ op = "GetStatus"
       => \A d \in Devices : reply.type = "status" /\ reply.enabled = state_machines[d].enabled

C22_Witness ==
  /\ op = "Toggle"
  /\ \A d \in Devices : pre_machines[d].enabled /\ ~state_machines[d].enabled
  /\ pre_machines[1].state.kind = "Popup"
  /\ reply = Ack(TRUE)

\* C23: when loading the locale of a SetLocale message fails, the sender gets
\* Ack{ok: false}, every machine keeps its locale map and its state, and the
\* configured active locale, which GetStatus reports, is the one that was
\* active before: it is always a locale whose map the machines hold.
C23_SetLocaleOnSuccess ==
  /\ (op = "SetLocale" /\ ~reply.ok)
       => (reply = Ack(FALSE) /\ state_machines = pre_machines)
  /\ \A d \in Devices :
       /\ load_locale_map(config_locale).ok
       /\ state_machines[d].locale_map = load_locale_map(config_locale).map
  /\ op = "GetStatus" => load_locale_map(reply.locale).ok

\* the time from the start of the hold or popup of keyboard d, as it was
\* before the operation, to the operation
ElapsedOn(d) == now - pre_machines[d].state.started

\* what a timer wake hands to process_actions, keyboard by keyboard
RECURSIVE WakeActions(_)
WakeActions(d) ==
  IF d \notin Devices THEN <<>>
  ELSE LET m == pre_machines[d] IN
       (CASE m.state.kind = "Holding" /\ ElapsedOn(d) >= m.threshold_ms ->
               << Relay(KeyEvent(m.state.key_code, 0)),
                  SendPopup(ShowPopup(m.state.base, m.state.accents,
                                      [i \in 1..Len(m.state.accents) |-> i])) >>
          [] m.state.kind = "Popup" /\ ElapsedOn(d) >= m.popup_timeout_ms ->
               << SendPopup(HidePopup) >>
          [] OTHER -> <<>>)
       \o WakeActions(d + 1)

\* the safety part of C28: a hold becomes a popup only in a timer wake, not
\* before started + threshold_ms, with the release of the held key relayed
\* and ShowPopup sent; it ends otherwise only by a key event of its keyboard
C28_HoldStep ==
  \A d \in Devices :
    (op # "tick" /\ pre_machines[d].state.kind = "Holding")
      => CASE state_machines[d].state.kind = "Popup" ->
                /\ op = "TimerWake"
                /\ ElapsedOn(d) >= pre_machines[d].threshold_ms
                /\ actions = WakeActions(0)
           [] state_machines[d].state.kind = "Idle" ->
                op = "DeviceEvent" /\ device_idx = d
           [] OTHER -> state_machines[d] = pre_machines[d]

\* C28: in the supervisor, a machine in Holding does not stay there: unless a
\* key event of its own keyboard ends the hold, a timer wake takes it to
\* Popup, no earlier than started + threshold_ms, whatever the other
\* keyboards, the other deadlines and the Select and Dismiss messages do.
C28_NoMissedDeadline ==
  /\ []C28_HoldStep
  /\ \A d \in Devices :
       (state_machines[d].state.kind = "Holding")
         ~> (state_machines[d].state.kind # "Holding")

C28_Witness ==
  /\ op = "TimerWake"
  /\ pre_machines[1].state.kind = "Holding" /\ state_machines[1].state.kind = "Popup"
  /\ pre_machines[0].state.kind = "Popup" /\ state_machines[0].state.kind = "Popup"
  /\ device_down[0] # {}

\* the safety part of C29: a timer wake leaves a popup alone before
\* started + popup_timeout_ms and from then on takes it to Idle with exactly
\* [SendPopup(HidePopup)]
C29_PopupStep ==
  \A d \in Devices :
    (op = "TimerWake" /\ pre_machines[d].state.kind = "Popup")
      => /\ actions = WakeActions(0)
         /\ IF ElapsedOn(d) < pre_machines[d].popup_timeout_ms
            THEN state_machines[d] = pre_machines[d]
            ELSE state_machines[d] = [pre_machines[d] EXCEPT !.state = Idle]

\* C29: a machine in Popup does not stay there: check_timer returns nothing
\* before popup_timeout_ms has passed since the popup opened and exactly
\* [SendPopup(HidePopup)] afterwards, taking the machine to Idle.
C29_PopupEnds ==
  /\ []C29_PopupStep
  /\ \A d \in Devices :
       (state_machines[d].state.kind = "Popup")
         ~> (state_machines[d].state.kind # "Popup")

C29_Witness ==
  /\ op = "TimerWake"
  /\ pre_machines[0].state.kind = "Popup" /\ state_machines[0].state.kind = "Idle"
  /\ actions = << SendPopup(HidePopup) >>
  /\ ElapsedOn(0) >= pre_machines[0].popup_timeout_ms

\* the number of times line n is in the channel of client c
Copies(c, n) ==
  Cardinality({i \in 1..Len(clients[c].queue) : clients[c].queue[i].n = n})
\* line n was a popup message (a reply goes to its sender, who may be gone)
IsPopupLine(n) ==
  \E c \in Clients : \E i \in 1..Len(clients[c].queue) :
    clients[c].queue[i] = PopupLine(n)
\* client c has registered, is connected and its writer task runs
Subscribed(c) ==
  clients[c].conn = "open" /\ clients[c].is_popup /\ clients[c].rx_alive

\* C24: every popup message the supervisor dispatches is queued exactly once
\* to every client that has registered and is connected, and the lines of a
\* client's channel are in the order the supervisor produced them, whatever
\* the client has sent before.
C24_FanOut ==
  \A c \in Clients :
    /\ Subscribed(c)
         => \A n \in (clients[c].since + 1)..produced :
              IsPopupLine(n) => Copies(c, n) = 1
    /\ (Subscribed(c) /\ op \in {"Dispatch", "Dismiss"}) => Copies(c, produced) = 1
    /\ \A n \in 1..produced : Copies(c, n) <= 1
    /\ \A i, j \in 1..Len(clients[c].queue) :
         i < j => clients[c].queue[i].n < clients[c].queue[j].n

\* C25: an Ack or a Status is queued only to the channel of the client whose
\* command caused it, and a client that has not registered has no popup
\* message in its channel.
C25_PrivateReplies ==
  \A c \in Clients :
    /\ \A i \in 1..Len(clients[c].queue) :
         clients[c].queue[i].kind \in {"ack", "status"}
           => clients[c].queue[i].from = c
    /\ ~clients[c].is_popup
         => \A i \in 1..Len(clients[c].queue) : clients[c].queue[i].kind # "popup"

C25_Witness ==
  /\ op = "Dispatch"
  /\ Subscribed(1)
  /\ clients[2].conn = "open" /\ ~clients[2].is_popup
  /\ clients[2].queue = << ReplyLine("status", 2, 2) >>
  /\ clients[1].queue = << ReplyLine("ack", 1, 1), PopupLine(3) >>

\* C26: once handle_ipc_client has finished for a client, popup_txs does not
\* contain a sender of that client.
C26_DisconnectRemoves ==
  \A c \in Clients :
    clients[c].conn = "done" => \A k \in 1..Len(popup_txs) : popup_txs[k] # c

\* the places in sinks of the actions of list b
PlacesOf(b) == {i \in 1..Len(sinks) : sinks[i].batch = b}

\* the actions of list b that have a sink
Sunk(b) == {n \in 1..Len(batches[b]) : batches[b][n] # "Suppress"}

\* the task that is dispatching list b, if any
Dispatching(b) == {t \in Tasks : tasks[t].pc = "dispatching" /\ tasks[t].batch = b}

\* C27: the actions of one list (of one process_event, one timer wake or one
\* IPC command) reach their sinks in the order of the list, with no action
\* of another list between them, and all of them have reached it once the
\* task has left process_actions
C27_DispatchAtomic ==
  \A b \in 1..Len(batches) :
    /\ \A i, j \in PlacesOf(b) :
         i < j => /\ sinks[i].n < sinks[j].n
                  /\ \A k \in i..j : sinks[k].batch = b
    /\ \A i \in PlacesOf(b) :
         /\ sinks[i].n \in Sunk(b)
         /\ sinks[i].action = batches[b][sinks[i].n]
         /\ \A n \in Sunk(b) : n < sinks[i].n => \E k \in PlacesOf(b) : sinks[k].n = n
    /\ Dispatching(b) = {} => \A n \in Sunk(b) : \E k \in PlacesOf(b) : sinks[k].n = n

\* a task waits for the lock while another is half way through a list of two
\* actions, after a list of another task has reached its sinks
C27_Witness ==
  \E t, u, v \in Tasks :
    /\ t # u /\ t # v
    /\ tasks[t].pc = "dispatching"
    /\ tasks[t].done = 1
    /\ Len(batches[tasks[t].batch]) = 2
    /\ PlacesOf(tasks[t].batch) # {}
    /\ tasks[u].pc = "waiting"
    /\ \E i \in 1..Len(sinks) : sinks[i].by = v

\* the three most recent key presses are Backspace, Escape, Enter and the
\* third came less than a second after the first
PanicCombo ==
  /\ Len(presses) = 3
  /\ << presses[1].code, presses[2].code, presses[3].code >>
       = << KEY_BACKSPACE, KEY_ESC, KEY_ENTER >>
  /\ presses[3].at - presses[1].at < PanicWindowMs

\* C30: the daemon has exited when, and only when, the three most recent
\* key presses (of any keyboard, releases and repeats not counted) are 14, 1,
\* 28 in that order with less than 1000 ms from the first to the third; the
\* press that completes the combo is not given to a state machine
C30_PanicRing ==
  /\ exited <=> PanicCombo
  /\ exited => IsKey(event, 1) /\ ~delivered
  /\ (op = "DeviceEvent" /\ ~exited) => delivered

\* the daemon has exited on a combo completed on the second keyboard, its
\* third press later than its first
C30_Witness ==
  /\ exited
  /\ presses[1].at < presses[3].at
  /\ device_idx = 1

\* the keys whose press every state of the machine relays: all but ESC and
\* the digit keys, which an open popup may swallow
PressRelayed(code) == code # KEY_ESC /\ ~keycode_to_digit(code).some

\* C35: the release of a key whose press was relayed is relayed as well,
\* whatever state the machine is in when it arrives, unless check_timer has
\* already synthesized it: no key stays down on the virtual device after it
\* has gone up on the keyboard.
C35_NoStuckKeys ==
  (op = "process_event" /\ IsKey(event, 0) /\ PressRelayed(event.code) /\ ~resent)
    => CountRelay(actions, event) = 1

\* C36: while a key whose release check_timer has synthesized is still down
\* on the keyboard, no repeat of that key is relayed, also after the popup
\* has closed.
C36_NoRepeatAfterSynth ==
  (op = "process_event" /\ IsKey(event, 2) /\ event.code \in synth)
    => ~HasRelay(actions)

\* C38: the popup clients have last been told to show a popup if and only if
\* the machine is in Popup.
C38_PopupVisibility ==
  (shown # <<>>) <=> (sm.state.kind = "Popup")

\* C39: ipc_select returns normally for every index and every machine state,
\* and index 0 selects nothing: the machine is left as it was and no action
\* is returned.
C39_SelectTotal ==
  op = "ipc_select"
    => /\ ~panicked
       /\ index = 0 => (actions = <<>> /\ sm = pre)

\* the EmitAccent actions of a list
CountEmit(acts) == Cardinality({i \in 1..Len(acts) : acts[i].tag = "EmitAccent"})

\* C37: at most one EmitAccent per popup, however digit presses, the popup
\* timeout and Select and Dismiss messages interleave: an operation returns
\* at most one EmitAccent, only on a machine in Popup, which it leaves Idle;
\* a machine gets into Popup only by an operation that returns one ShowPopup;
\* a Select on a machine that is not in Popup returns nothing.
C37_OneEmissionPerPopup ==
  /\ CountEmit(actions) <= 1
  /\ CountEmit(actions) = 1 => (pre.state.kind = "Popup" /\ sm.state.kind = "Idle")
  /\ (pre.state.kind # "Popup" /\ sm.state.kind = "Popup")
       => (CountMsg(actions, "show_popup") = 1 /\ CountEmit(actions) = 0)
  /\ (op = "ipc_select" /\ pre.state.kind # "Popup") => actions = <<>>

\* a Select message takes the second accent of an open popup and closes it
C37_Witness ==
  /\ op = "ipc_select" /\ index = 2
  /\ pre.state.kind = "Popup"
  /\ CountEmit(actions) = 1
  /\ sm.state.kind = "Idle"
  /\ shown = <<>>

\* C31: once the daemon has left, by the panic key combo or by the end of the
\* main loop, the socket file it had bound is gone.
C31_SocketUnlinked ==
  (exited \/ main_loop = "done") => ~socket_file

\* the safety part of C32: a device event changes the machine of its own
\* keyboard, as process_event says, and no other; the main loop has ended
\* only if every grabber task has ended and every machine is Idle
C32_Isolation ==
  /\ op = "DeviceEvent"
       => /\ \A d \in Devices \ {device_idx} : state_machines[d] = pre_machines[d]
          /\ state_machines[device_idx]
               = process_event(pre_machines[device_idx], event, now).sm
          /\ actions = process_event(pre_machines[device_idx], event, now).actions
  /\ main_loop = "done"
       => /\ grabbers = {}
          /\ \A d \in Devices : state_machines[d].state.kind = "Idle"

\* C32: the failure of one grabber task leaves the other keyboards' events
\* to their own machines; the main loop ends only after every grabber task
\* has ended and no machine has a deadline, and then it does end: the timers
\* first take a machine that a dead keyboard left in Holding or Popup back to
\* Idle.
C32_DeviceFailureIsolated ==
  /\ []C32_Isolation
  /\ (grabbers = {}) ~> (main_loop = "done")

\* keyboard 0 has failed with its machine in a popup, and a press on keyboard
\* 1 has started a hold on machine 1
C32_Witness ==
  /\ grabbers = {1}
  /\ main_loop = "running"
  /\ op = "DeviceEvent" /\ device_idx = 1
  /\ pre_machines[0].state.kind = "Popup" /\ state_machines[0].state.kind = "Popup"
  /\ pre_machines[1].state.kind = "Idle" /\ state_machines[1].state.kind = "Holding"

\* the key events of a batch, and whether each is followed by a sync event
KeyEventsOf(batch) == SelectSeq(batch, LAMBDA e : e.type = "KEY")
SynAfterEachKey(batch) ==
  /\ Len(batch) % 2 = 0
  /\ \A i \in 1..Len(batch) :
       IF i % 2 = 1 THEN batch[i].type = "KEY" ELSE batch[i] = SynEvent

\* the key of the hex digit of value v, and the digit of weight 16^(4-i) of c
DigitKey(v) ==
  << KEY_0, KEY_1, KEY_2, KEY_3, KEY_4, KEY_5, KEY_6, KEY_7, KEY_8, KEY_9,
     KEY_A, KEY_B, KEY_C, KEY_D, KEY_E, KEY_F >>[v + 1]
NthDigit(c, i) ==
  CASE i = 1 -> (c \div 4096) % 16
    [] i = 2 -> (c \div 256) % 16
    [] i = 3 -> (c \div 16) % 16
    [] OTHER -> c % 16

\* C33: for an accent whose first codepoint is at most U+FFFF, an emit_accent
\* in which no emit fails issues nine batches: Backspace down, Backspace up,
\* LeftCtrl down, LeftShift down, U down, U up, LeftShift up, LeftCtrl up,
\* one key event each, then one batch of ten key events, press and release
\* of the four zero-padded hex digits and of Enter; every key event is
\* followed by a sync event in its batch.
C33_EmissionProtocol ==
  (emit_result = "Ok" /\ accent # <<>> /\ Head(accent) <= 65535)
    => /\ Len(emitter) = 9
       /\ \A b \in 1..9 : SynAfterEachKey(emitter[b])
       /\ << KeyEventsOf(emitter[1]), KeyEventsOf(emitter[2]), KeyEventsOf(emitter[3]),
             KeyEventsOf(emitter[4]), KeyEventsOf(emitter[5]), KeyEventsOf(emitter[6]),
             KeyEventsOf(emitter[7]), KeyEventsOf(emitter[8]) >>
            = << << KeyEvent(KEY_BACKSPACE, 1) >>, << KeyEvent(KEY_BACKSPACE, 0) >>,
                 << KeyEvent(KEY_LEFTCTRL, 1) >>, << KeyEvent(KEY_LEFTSHIFT, 1) >>,
                 << KeyEvent(KEY_U, 1) >>, << KeyEvent(KEY_U, 0) >>,
                 << KeyEvent(KEY_LEFTSHIFT, 0) >>, << KeyEvent(KEY_LEFTCTRL, 0) >> >>
       /\ KeyEventsOf(emitter[9])
            = [i \in 1..10 |->
                 IF i <= 8
                 THEN KeyEvent(DigitKey(NthDigit(Head(accent), (i + 1) \div 2)), i % 2)
                 ELSE KeyEvent(KEY_ENTER, i % 2)]

\* an accent of two hex digits has been emitted in full
C33_Witness ==
  /\ emit_result = "Ok"
  /\ accent = << 232 >>
  /\ Len(emitter) = 9
  /\ Len(emitter[9]) = 20

\* the keys left down by a list of batches
RECURSIVE KeysDown(_, _)
KeysDown(events, held) ==
  IF events = <<>> THEN held
  ELSE KeysDown(Tail(events),
                IF Head(events).type # "KEY" THEN held
                ELSE IF Head(events).value = 1 THEN held \cup {Head(events).code}
                ELSE IF Head(events).value = 0 THEN held \ {Head(events).code}
                ELSE held)
RECURSIVE Flatten(_)
Flatten(bs) == IF bs = <<>> THEN <<>> ELSE Head(bs) \o Flatten(Tail(bs))

\* C40: when emit_accent has returned, with Ok or with the error of one of
\* its emits, every key it has pressed on the virtual device has been
\* released again.
C40_NoSyntheticKeyDown ==
  emit_result # "none" => KeysDown(Flatten(emitter), {}) = {}

\* the line ends with its only newline
OneNewlineAtEnd(l) ==
  /\ l # <<>>
  /\ l[Len(l)] = "\n"
  /\ \A i \in 1..(Len(l) - 1) : l[i] # "\n"

\* C34: decoding the encoding of a DaemonMsg or of a ClientMsg gives the
\* message back, and the encoding holds one newline, its last character;
\* empty and white-space lines, malformed JSON and unknown type tags decode
\* to no message.
C34_CodecRoundTrip ==
  /\ op = "encode_daemon"
       => (decoded.daemon = Some(codec_msg) /\ OneNewlineAtEnd(codec_line))
  /\ op = "encode_client"
       => (decoded.client = Some(codec_msg) /\ OneNewlineAtEnd(codec_line))
  /\ (op = "decode" /\ codec_line \in BlankLines \cup CutLines \cup OtherLines)
       => (decoded.daemon = None /\ decoded.client = None)

\* a ShowPopup whose accents hold a newline has gone through the codec
C34_Witness ==
  /\ op = "encode_daemon"
  /\ codec_msg.type = "show_popup"
  /\ codec_msg.accents = << <<>>, << "\n" >> >>
  /\ decoded.daemon = Some(codec_msg)
  /\ decoded.client = None

====
